---------------------------- MODULE Spec2Model ----------------------------
(***************************************************************************)
(* Model of the event-driven portfolio replay engine (PortfolioEngine)     *)
(* with its PricingEngine and PositionSizer.                               *)
(*                                                                         *)
(* Number representation.  The source computes in binary floating point;   *)
(* the model computes in exact fixed point:                                *)
(*   - timestamps are integers (bar numbers);                              *)
(*   - instrument prices are integers (whole price units);                 *)
(*   - lots are counted in tenths (LotScale), the resolution that          *)
(*     round(lot_size, 1) produces;                                        *)
(*   - FX rates are counted in hundredths (FxScale), the resolution of     *)
(*     DEFAULT_FX_RATES;                                                   *)
(*   - money (cash, equity, P&L) is counted in 1/MoneyScale of a dollar,   *)
(*     MoneyScale = LotScale * FxScale, so that every P&L is exact.        *)
(* A value that may be NaN in the source is a sequence: <<v>> or <<>>.     *)
(***************************************************************************)
EXTENDS Integers, Sequences, FiniteSets, TLC

LotScale == 10
FxScale == 100
MoneyScale == LotScale * FxScale
\* drawdowns are counted in 1/DdScale of a percent
DdScale == 100

NaN == <<>>
Some(v) == <<v>>

(***************************************************************************)
(* Bounds of the model.                                                    *)
(***************************************************************************)
\* largest total number of input trades over all strategies
MaxTrades == 2
\* largest number of positions in the open set when liquidation is entered
MaxOpen == 2
\* largest length of a drawdown series or equity series given to the analytics
MaxLen == 5
\* largest number of calls of calculate_all on one MetricsCalculator
MaxCalls == 2
\* the calendar of the analytics: bars in a day, days in a month
BarsPerDay == 2
DaysPerMonth == 2

(***************************************************************************)
(* Configuration (config dict).                                            *)
(***************************************************************************)
\* config['portfolio_balance'], in dollars
PortfolioBalance == 100000
\* config['date_start'], config['date_end']: the window of the run, in bars
DateStart == 1
DateEnd == 3

\* algo_configs, in configuration order: name and risk_per_trade (percent)
AlgoNames == <<"A", "B">>
RiskPerTrade(algo_name) == IF algo_name = "A" THEN 1 ELSE 2

(***************************************************************************)
(* settings.py                                                             *)
(***************************************************************************)
\* point_value is the fraction point_value_num / point_value_den
INSTRUMENT_SPECS ==
    [s \in {"DE40", "XAUUSD", "EURUSD", "GBPUSD"} |->
        CASE s = "DE40"   -> [contract_size |-> 1, point_value_num |-> 1,
                              point_value_den |-> 1, currency |-> "EUR"]
          [] s = "XAUUSD" -> [contract_size |-> 100, point_value_num |-> 1,
                              point_value_den |-> 1, currency |-> "USD"]
          [] s = "EURUSD" -> [contract_size |-> 100000, point_value_num |-> 1,
                              point_value_den |-> 10000, currency |-> "USD"]
          [] s = "GBPUSD" -> [contract_size |-> 100000, point_value_num |-> 1,
                              point_value_den |-> 10000, currency |-> "USD"]]

\* rates in hundredths
DEFAULT_FX_RATES ==
    [p \in {"EURUSD", "GBPUSD", "USDJPY"} |->
        CASE p = "EURUSD" -> 110
          [] p = "GBPUSD" -> 127
          [] p = "USDJPY" -> 11000]

(***************************************************************************)
(* Generic helpers.                                                        *)
(***************************************************************************)
Abs(x) == IF x < 0 THEN 0 - x ELSE x

RECURSIVE SumSeq(_)
SumSeq(s) == IF s = <<>> THEN 0 ELSE Head(s) + SumSeq(Tail(s))

\* variant: the type is compared as it is written
LowerIdentity(s) == s

\* str.lower() on the trade types validate_data lets through
Lower(s) ==
    CASE s \in {"buy", "Buy", "BUY"}    -> "buy"
      [] s \in {"sell", "Sell", "SELL"} -> "sell"
      [] OTHER                          -> s

\* variant: the fraction is cut off
RoundTowardZero(n, d) == n \div d

\* Python's round() to an integer number of units of n / d: nearest, ties to
\* even.  d > 0.
RoundHalfEven(n, d) ==
    LET q == n \div d
        r == n % d
    IN  IF 2 * r < d THEN q
        ELSE IF 2 * r > d THEN q + 1
        ELSE IF q % 2 = 0 THEN q ELSE q + 1

(***************************************************************************)
(* PricingEngine.  m1 is the m1_data dict: a function from the loaded      *)
(* symbols to their bar sequences, each sorted by datetime, non-empty and  *)
(* with distinct timestamps, as DataLoader.load_m1_data leaves them.       *)
(* A lookup that raises returns Raise.                                     *)
(***************************************************************************)
Raise == [raised |-> TRUE]
Ok(v) == [raised |-> FALSE, value |-> v]

\* variant: the first bar at or before timestamp
asofEarliest(df, timestamp, price_type) ==
    LET at == {k \in 1..Len(df) : df[k].datetime <= timestamp}
    IN  IF at = {} THEN <<>>
        ELSE <<df[CHOOSE k \in at : \A j \in at : k <= j][price_type]>>

\* df[price_type].asof(timestamp): the last bar at or before timestamp,
\* NaN when timestamp precedes the first bar
asof(df, timestamp, price_type) ==
    LET at == {k \in 1..Len(df) : df[k].datetime <= timestamp}
    IN  IF at = {} THEN NaN
        ELSE Some(df[CHOOSE k \in at : \A j \in at : j <= k][price_type])

get_price_at_time(m1, symbol, timestamp, price_type) ==
    IF symbol \notin DOMAIN m1 THEN Raise
    ELSE LET df == m1[symbol]
             price == asof(df, timestamp, price_type)
         IN  IF price = NaN THEN Ok(df[1][price_type]) ELSE Ok(price[1])

get_fx_rate(m1, currency_pair, timestamp) ==
    IF currency_pair \in DOMAIN m1
    THEN get_price_at_time(m1, currency_pair, timestamp, "close")
    ELSE IF currency_pair \in DOMAIN DEFAULT_FX_RATES
         THEN Ok(DEFAULT_FX_RATES[currency_pair])
         ELSE Ok(1 * FxScale)

\* amount is money; the result is money
convert_to_usd(m1, amount, currency, timestamp) ==
    IF currency = "USD" THEN Ok(amount)
    ELSE LET fx_rate == get_fx_rate(m1, currency \o "USD", timestamp)
         IN  IF fx_rate.raised THEN Raise
             ELSE Ok((amount * fx_rate.value) \div FxScale)

get_instrument_specs(symbol) ==
    IF symbol \in DOMAIN INSTRUMENT_SPECS THEN INSTRUMENT_SPECS[symbol]
    ELSE [contract_size |-> 1, point_value_num |-> 1,
          point_value_den |-> 1, currency |-> "USD"]

(***************************************************************************)
(* helpers.calculate_risk_amount and PositionSizer.                        *)
(***************************************************************************)
\* variant: a trade with no stop distance gets the smallest lot
calculate_risk_amount_min_lot(equity, risk_pct, entry_price, sl_price, specs) ==
    IF Abs(entry_price - sl_price) = 0 THEN 1
    ELSE RoundHalfEven(equity * risk_pct * specs.point_value_den,
                       (MoneyScale \div LotScale) * 100
                           * Abs(entry_price - sl_price) * specs.contract_size
                           * specs.point_value_num)

\* equity is money, risk_pct a percentage; the result is lots in tenths.
\* lot_size = (equity * risk_pct / 100) / (stop_distance * contract_size *
\* point_value), rounded to one decimal.
calculate_risk_amount(equity, risk_pct, entry_price, sl_price, specs) ==
    LET stop_distance == Abs(entry_price - sl_price)
        risk_per_lot_num == stop_distance * specs.contract_size
                                * specs.point_value_num
    IN  IF stop_distance = 0 THEN 0
        ELSE IF risk_per_lot_num = 0 THEN 0
        ELSE RoundHalfEven(equity * risk_pct * specs.point_value_den,
                           (MoneyScale \div LotScale) * 100 * risk_per_lot_num)

calculate_size(m1, equity, risk_pct, symbol, entry_price, sl_price, timestamp) ==
    LET specs == get_instrument_specs(symbol)
        fx_rate == IF specs.currency # "USD"
                   THEN get_fx_rate(m1, specs.currency \o "USD", timestamp)
                   ELSE Ok(1 * FxScale)
    IN  IF fx_rate.raised THEN Raise
        ELSE Ok(calculate_risk_amount(equity, risk_pct, entry_price,
                                      sl_price, specs))

\* size is lots in tenths; the result is money
calculate_pnl(m1, trade_type, symbol, entry_price, exit_price, size, timestamp) ==
    LET specs == get_instrument_specs(symbol)
        price_diff == IF Lower(trade_type) \in {"buy", "buystop"}
                      THEN exit_price - entry_price
                      ELSE entry_price - exit_price
        pnl == (price_diff * size * specs.contract_size
                    * specs.point_value_num * FxScale)
               \div specs.point_value_den
    IN  IF specs.currency # "USD"
        THEN convert_to_usd(m1, pnl, specs.currency, timestamp)
        ELSE Ok(pnl)

(***************************************************************************)
(* helpers.calculate_drawdown_series and helpers.find_drawdown_periods.    *)
(* A series is a sequence; the source's indices are 0-based: index idx is  *)
(* element idx + 1.  Drawdowns are in 1/DdScale of a percent, rounded      *)
(* down, so that a drawdown below zero stays below zero.                   *)
(***************************************************************************)
Min(S) == CHOOSE x \in S : \A y \in S : x <= y
Max(S) == CHOOSE x \in S : \A y \in S : y <= x

\* equity_series.expanding().max()
running_max(equity_series) ==
    [k \in 1..Len(equity_series) |-> Max({equity_series[j] : j \in 1..k})]

\* the quotient n / d of two floats, d # 0, in whole units, rounded down
Quotient(n, d) == IF d > 0 THEN n \div d ELSE (0 - n) \div (0 - d)

\* (equity_series - running_max) / running_max * 100; the series given to
\* it here have no running maximum of 0
calculate_drawdown_series(equity_series) ==
    [k \in 1..Len(equity_series) |->
        Quotient((equity_series[k] - running_max(equity_series)[k]) * 100 * DdScale,
                 running_max(equity_series)[k])]

\* the dict appended for dd_period = drawdown_series.iloc[start_idx:stop]
DrawdownPeriod(drawdown_series, start_idx, stop) ==
    LET at == (start_idx + 1)..stop
        lowest == Min({drawdown_series[k] : k \in at})
    IN  [start_idx |-> start_idx,
         end_idx |-> stop - 1,
         duration |-> stop - start_idx,
         max_dd |-> lowest,
         max_dd_idx |-> Min({k \in at : drawdown_series[k] = lowest}) - 1]

\* the loop over enumerate(drawdown_series), from index idx on; st holds the
\* locals periods, in_drawdown and start_idx (None is -1)
RECURSIVE ScanDrawdown(_, _, _)
ScanDrawdown(drawdown_series, idx, st) ==
    IF idx = Len(drawdown_series) THEN st
    ELSE LET dd == drawdown_series[idx + 1]
             next ==
                 IF dd < 0 /\ ~st.in_drawdown
                 THEN [st EXCEPT !.in_drawdown = TRUE, !.start_idx = idx]
                 ELSE IF dd >= 0 /\ st.in_drawdown
                 THEN [st EXCEPT !.in_drawdown = FALSE,
                                 !.periods = Append(st.periods,
                                     DrawdownPeriod(drawdown_series,
                                                    st.start_idx, idx))]
                 ELSE st
         IN  ScanDrawdown(drawdown_series, idx + 1, next)

ScannedDrawdown(drawdown_series) ==
    ScanDrawdown(drawdown_series, 0,
                 [periods |-> <<>>, in_drawdown |-> FALSE, start_idx |-> -1])

\* variant: a drawdown still running at the end of the series is left out
find_drawdown_periods_closed_only(drawdown_series) ==
    ScannedDrawdown(drawdown_series).periods

find_drawdown_periods(drawdown_series) ==
    LET st == ScannedDrawdown(drawdown_series)
    IN  IF st.in_drawdown
        THEN Append(st.periods,
                    DrawdownPeriod(drawdown_series, st.start_idx,
                                   Len(drawdown_series)))
        ELSE st.periods


(***************************************************************************)
(* Inputs: the loaded price data and the loaded backtests.                 *)
(***************************************************************************)
Bar(t, o, h, l, c) == [datetime |-> t, open |-> o, high |-> h, low |-> l, close |-> c]

\* every configured M1 file was found; EURUSD bars are in hundredths
M1Full ==
    [s \in {"XAUUSD", "DE40", "EURUSD"} |->
        CASE s = "XAUUSD" -> <<Bar(DateStart + 1, 100, 103, 100, 102),
                               Bar(DateStart + 2, 102, 102, 100, 101)>>
          [] s = "DE40"   -> <<Bar(DateStart, 100, 100, 99, 100),
                               Bar(DateStart + 1, 100, 103, 100, 103),
                               Bar(DateStart + 2, 103, 103, 98, 99)>>
          [] s = "EURUSD" -> <<Bar(DateStart, 110, 110, 110, 110),
                               Bar(DateStart + 2, 110, 120, 110, 120)>>]

\* only the XAUUSD file was found (load_m1_data skips a missing file)
M1Partial == [s \in {"XAUUSD"} |-> M1Full[s]]

M1Inputs == {M1Full, M1Partial}

TradedSymbols == {"XAUUSD", "DE40"}
TradeTypes == {"Buy", "Sell"}

\* the instruments and directions the sheets trade
TradeKinds == {<<"XAUUSD", "Buy">>, <<"XAUUSD", "Sell">>, <<"DE40", "Buy">>}

\* the rows a backtest sheet may hold within [DateStart, DateEnd]; the
\* ticket is given by the row's place in its sheet
RowChoices ==
    {[symbol |-> kind[1], type |-> kind[2], open_time |-> o, close_time |-> c,
      open_price |-> 100,
      close_price |-> IF kind[1] = "XAUUSD" THEN 101 ELSE 102,
      sl_price |-> IF kind[1] = "XAUUSD" THEN 99 ELSE 98,
      size |-> 1 * LotScale, pnl |-> Some(0), mae |-> Some(0), mfe |-> Some(0)] :
        kind \in TradeKinds, o \in DateStart..DateEnd, c \in DateStart..DateEnd}

\* load_backtest_data: rows with close_time >= open_time, sorted by
\* open_time, with the algo_name and risk_pct columns added
IsLoadable(rows) ==
    /\ \A k \in 1..Len(rows) : rows[k].close_time >= rows[k].open_time
    /\ \A j, k \in 1..Len(rows) : j < k => rows[j].open_time <= rows[k].open_time

Sheets(n) == {rows \in [1..n -> RowChoices] : IsLoadable(rows)}

DataFrame(algo_name, rows) ==
    [k \in 1..Len(rows) |->
        [f \in DOMAIN rows[k] \cup {"ticket", "algo_name", "risk_pct"} |->
            CASE f = "ticket"    -> k
              [] f = "algo_name" -> algo_name
              [] f = "risk_pct"  -> RiskPerTrade(algo_name)
              [] OTHER           -> rows[k][f]]]

\* backtest_data, as an insertion-ordered dict: a sequence of items
BacktestInputs ==
    {<<[algo_name |-> AlgoNames[1], df |-> DataFrame(AlgoNames[1], ra)],
       [algo_name |-> AlgoNames[2], df |-> DataFrame(AlgoNames[2], rb)]>> :
        <<ra, rb>> \in UNION {Sheets(na) \X Sheets(nb) :
            <<na, nb>> \in {x \in (0..MaxTrades) \X (0..MaxTrades) :
                               x[1] + x[2] <= MaxTrades}}}

(***************************************************************************)
(* PortfolioEngine: state.                                                 *)
(***************************************************************************)
VARIABLES
    m1_data,             \* self.m1_data (and pricing_engine.m1_indices)
    backtest_data,       \* self.backtest_data
    generate_m1_equity,  \* config['output_settings']['generate_m1_equity']
    starting_balance,    \* self.starting_balance, money
    cash,                \* self.cash, money
    equity,              \* self.equity, money
    open_positions,      \* self.open_positions: insertion-ordered dict, as
                         \* the sequence of its values (each holds its key)
    equity_curve,        \* self.equity_curve
    trade_log,           \* self.trade_log
    all_trades,          \* self.all_trades
    i,                   \* run: number of trades of all_trades processed
    frame,               \* _process_trade: its locals position_id, position_size
                         \* and current_equity while the trade is open (its
                         \* argument trade is all_trades[i + 1])
    result,              \* run: the returned dict, <<>> before it returns
    pc                   \* position of the run

vars == <<m1_data, backtest_data, generate_m1_equity, starting_balance, cash,
          equity, open_positions, equity_curve, trade_log, all_trades, i,
          frame, result, pc>>

inputs == <<m1_data, backtest_data, generate_m1_equity, starting_balance,
            equity, all_trades>>

(***************************************************************************)
(* _combine_all_trades                                                     *)
(***************************************************************************)
TradeDict(algo_name, trade) ==
    [algo_name |-> algo_name, risk_pct |-> trade.risk_pct,
     ticket |-> trade.ticket, symbol |-> trade.symbol, type |-> trade.type,
     open_time |-> trade.open_time, close_time |-> trade.close_time,
     open_price |-> trade.open_price, close_price |-> trade.close_price,
     sl_price |-> trade.sl_price, size_original |-> trade.size,
     pnl_original |-> trade.pnl, mae_original |-> trade.mae,
     mfe_original |-> trade.mfe]

RECURSIVE AppendAllAlgos(_)
\* variant: only the first strategy's rows are taken
AppendFirstAlgo(items) ==
    IF items = <<>> THEN <<>>
    ELSE [k \in 1..Len(Head(items).df) |->
             TradeDict(Head(items).algo_name, Head(items).df[k])]

AppendAllAlgos(items) ==
    IF items = <<>> THEN <<>>
    ELSE [k \in 1..Len(Head(items).df) |->
             TradeDict(Head(items).algo_name, Head(items).df[k])]
         \o AppendAllAlgos(Tail(items))

\* sorted(all_trades, key=lambda x: x['open_time']): a stable sort, by
\* insertion of each element after the elements whose key is not larger
RECURSIVE InsertByOpenTime(_, _)
InsertByOpenTime(sorted, x) ==
    IF sorted = <<>> THEN <<x>>
    ELSE IF Head(sorted).open_time <= x.open_time
         THEN <<Head(sorted)>> \o InsertByOpenTime(Tail(sorted), x)
         ELSE <<x>> \o sorted

RECURSIVE SortedByOpenTimeFrom(_, _)
SortedByOpenTimeFrom(sorted, rest) ==
    IF rest = <<>> THEN sorted
    ELSE SortedByOpenTimeFrom(InsertByOpenTime(sorted, Head(rest)), Tail(rest))

\* variant: the strategies' trades one strategy after the other, no merge
SortedPerStrategy(trades) == trades

SortedByOpenTime(trades) == SortedByOpenTimeFrom(<<>>, trades)

_combine_all_trades(data) == SortedByOpenTime(AppendAllAlgos(data))

(***************************************************************************)
(* Marking and sampling.                                                   *)
(***************************************************************************)
\* the try succeeds with the position's P&L at the looked-up price; the
\* bare except turns every failure into 0
_calculate_floating_pnl(m1, position, timestamp) ==
    LET current_price == get_price_at_time(m1, position.symbol, timestamp, "close")
    IN  IF current_price.raised THEN 0
        ELSE LET floating_pnl == calculate_pnl(m1, position.type, position.symbol,
                                     position.open_price, current_price.value,
                                     position.size, timestamp)
             IN  IF floating_pnl.raised THEN 0 ELSE floating_pnl.value

_get_current_equity(m1, c, positions, timestamp) ==
    c + SumSeq([k \in 1..Len(positions) |->
                   _calculate_floating_pnl(m1, positions[k], timestamp)])

EquitySample(timestamp, eq, c, floating, count) ==
    [datetime |-> timestamp, equity |-> eq, cash |-> c,
     floating_pnl |-> floating, open_positions |-> count]

_update_equity_curve(m1, c, positions, timestamp) ==
    EquitySample(timestamp,
                 _get_current_equity(m1, c, positions, timestamp),
                 c,
                 SumSeq([k \in 1..Len(positions) |->
                            _calculate_floating_pnl(m1, positions[k], timestamp)]),
                 Len(positions))

(***************************************************************************)
(* The open_positions dict.                                                *)
(***************************************************************************)
Keys(positions) == {positions[k].position_id : k \in 1..Len(positions)}

\* variant: the assignment is lost
DictSetLost(positions, value) == positions

\* d[key] = value: in place when the key is present, at the end otherwise
DictSet(positions, value) ==
    IF value.position_id \in Keys(positions)
    THEN [k \in 1..Len(positions) |->
             IF positions[k].position_id = value.position_id
             THEN value ELSE positions[k]]
    ELSE Append(positions, value)

\* variant: every other key is deleted
DictDelOthers(positions, key) ==
    SelectSeq(positions, LAMBDA p : p.position_id = key)

\* del d[key]
DictDel(positions, key) ==
    SelectSeq(positions, LAMBDA p : p.position_id # key)


(***************************************************************************)
(* PortfolioEngine.__init__ and run.                                       *)
(***************************************************************************)
Init ==
    /\ m1_data \in M1Inputs
    /\ backtest_data \in BacktestInputs
    /\ generate_m1_equity \in BOOLEAN
    /\ starting_balance = PortfolioBalance * MoneyScale
    /\ cash = starting_balance
    /\ equity = starting_balance
    /\ open_positions = <<>>
    /\ equity_curve = <<>>
    /\ trade_log = <<>>
    /\ all_trades = _combine_all_trades(backtest_data)
    /\ i = 0
    /\ frame = <<>>
    /\ result = <<>>
    /\ pc = "constructed"

\* variant: the first sample with no equity yet
InitialSampleWithoutEquity(start_date, balance) ==
    EquitySample(start_date, 0, balance, 0, 0)

InitialSample(start_date, balance) ==
    EquitySample(start_date, balance, balance, 0, 0)

\* run, up to the loop
RunStart ==
    /\ pc = "constructed"
    /\ equity_curve' = Append(equity_curve, InitialSample(DateStart, starting_balance))
    /\ pc' = "loop"
    /\ UNCHANGED <<inputs, cash, open_positions, trade_log, i, frame, result>>

(***************************************************************************)
(* _process_trade, in its three parts: open, track, close.                 *)
(***************************************************************************)
PositionId(algo_name, ticket) == <<algo_name, ticket>>

OpenedPosition(trade, position_id, position_size, current_equity) ==
    [position_id |-> position_id,
     algo_name |-> trade.algo_name, ticket |-> trade.ticket,
     symbol |-> trade.symbol, type |-> trade.type,
     open_time |-> trade.open_time, open_price |-> trade.open_price,
     sl_price |-> trade.sl_price, size |-> position_size,
     size_original |-> trade.size_original, entry_equity |-> current_equity]

\* variant: opening a position takes a margin of one dollar out of cash
OpenPositionChargingCash ==
    /\ pc = "loop"
    /\ i < Len(all_trades)
    /\ LET trade == all_trades[i + 1]
           current_equity == _get_current_equity(m1_data, cash, open_positions,
                                                 trade.open_time)
           position_size == calculate_size(m1_data, current_equity, trade.risk_pct,
                                trade.symbol, trade.open_price, trade.sl_price,
                                trade.open_time)
           position_id == PositionId(trade.algo_name, trade.ticket)
       IN  /\ open_positions' = DictSet(open_positions,
                  OpenedPosition(trade, position_id, position_size.value,
                                 current_equity))
           /\ frame' = <<[position_id |-> position_id,
                          position_size |-> position_size.value,
                          current_equity |-> current_equity]>>
           /\ pc' = IF generate_m1_equity THEN "track" ELSE "close"
    /\ cash' = cash - MoneyScale
    /\ UNCHANGED <<inputs, equity_curve, trade_log, i, result>>

OpenPosition ==
    /\ pc = "loop"
    /\ i < Len(all_trades)
    /\ LET trade == all_trades[i + 1]
           current_equity == _get_current_equity(m1_data, cash, open_positions,
                                                 trade.open_time)
           position_size == calculate_size(m1_data, current_equity, trade.risk_pct,
                                trade.symbol, trade.open_price, trade.sl_price,
                                trade.open_time)
           position_id == PositionId(trade.algo_name, trade.ticket)
       IN  IF position_size.raised
           THEN /\ pc' = "raised"
                /\ UNCHANGED <<open_positions, frame>>
           ELSE /\ open_positions' = DictSet(open_positions,
                       OpenedPosition(trade, position_id, position_size.value,
                                      current_equity))
                /\ frame' = <<[position_id |-> position_id,
                               position_size |-> position_size.value,
                               current_equity |-> current_equity]>>
                /\ pc' = IF generate_m1_equity THEN "track" ELSE "close"
    /\ UNCHANGED <<inputs, cash, equity_curve, trade_log, i, result>>

Lookup(positions, position_id) ==
    positions[CHOOSE k \in 1..Len(positions) : positions[k].position_id = position_id]

\* variant: the bar's sample leaves the floating P&L out of the equity
M1SampleCashOnly(m1, c, positions, position_id, bar) ==
    LET position == Lookup(positions, position_id)
        floating_pnl == calculate_pnl(m1, position.type, position.symbol,
                            position.open_price, bar.close, position.size,
                            bar.datetime)
    IN  IF floating_pnl.raised THEN Raise
        ELSE Ok(EquitySample(bar.datetime, c, c, floating_pnl.value,
                             Len(positions)))

\* one pass of the loop over the bars: the sample appended for bar
M1Sample(m1, c, positions, position_id, bar) ==
    LET position == Lookup(positions, position_id)
        floating_pnl == calculate_pnl(m1, position.type, position.symbol,
                            position.open_price, bar.close, position.size,
                            bar.datetime)
        others == SelectSeq(positions, LAMBDA p : p.position_id # position_id)
    IN  IF floating_pnl.raised THEN Raise
        ELSE Ok(EquitySample(bar.datetime,
                    c + floating_pnl.value
                      + SumSeq([k \in 1..Len(others) |->
                            _calculate_floating_pnl(m1, others[k], bar.datetime)]),
                    c, floating_pnl.value, Len(positions)))

\* _track_position_m1: the samples it appends, or the exception it lets
\* through (self.open_positions[position_id] of a missing key)
_track_position_m1(m1, c, positions, position_id, trade) ==
    IF position_id \notin Keys(positions) THEN Raise
    ELSE LET symbol == Lookup(positions, position_id).symbol
         IN  IF symbol \notin DOMAIN m1 THEN Ok(<<>>)
             ELSE LET m1_bars == SelectSeq(m1[symbol],
                                     LAMBDA bar : /\ bar.datetime > trade.open_time
                                                  /\ bar.datetime < trade.close_time)
                      samples == [k \in 1..Len(m1_bars) |->
                                     M1Sample(m1, c, positions, position_id, m1_bars[k])]
                  IN  IF \E k \in 1..Len(samples) : samples[k].raised THEN Raise
                      ELSE Ok([k \in 1..Len(samples) |-> samples[k].value])

TrackPositionM1 ==
    /\ pc = "track"
    /\ LET samples == _track_position_m1(m1_data, cash, open_positions,
                          frame[1].position_id, all_trades[i + 1])
       IN  IF samples.raised
           THEN /\ pc' = "raised"
                /\ UNCHANGED equity_curve
           ELSE /\ equity_curve' = equity_curve \o samples.value
                /\ pc' = "close"
    /\ UNCHANGED <<inputs, cash, open_positions, trade_log, i, frame, result>>

\* variant: a loss is not taken from cash
UpdateCashGainsOnly(c, pnl) == IF pnl < 0 THEN c ELSE c + pnl

\* self.cash += pnl
UpdateCash(c, pnl) == c + pnl

\* variant: the log carries the size of the P&L without its sign
ClosedTradeUnsigned(trade, position_size, pnl, current_equity, exit_equity) ==
    [algo_name |-> trade.algo_name, ticket |-> trade.ticket,
     symbol |-> trade.symbol, type |-> trade.type,
     open_time |-> trade.open_time, close_time |-> trade.close_time,
     open_price |-> trade.open_price, close_price |-> trade.close_price,
     sl_price |-> trade.sl_price, size |-> position_size,
     size_original |-> trade.size_original, pnl |-> Abs(pnl),
     pnl_original |-> trade.pnl_original, entry_equity |-> current_equity,
     exit_equity |-> exit_equity, risk_pct |-> Some(trade.risk_pct),
     mae_original |-> trade.mae_original, mfe_original |-> trade.mfe_original]

ClosedTrade(trade, position_size, pnl, current_equity, exit_equity) ==
    [algo_name |-> trade.algo_name, ticket |-> trade.ticket,
     symbol |-> trade.symbol, type |-> trade.type,
     open_time |-> trade.open_time, close_time |-> trade.close_time,
     open_price |-> trade.open_price, close_price |-> trade.close_price,
     sl_price |-> trade.sl_price, size |-> position_size,
     size_original |-> trade.size_original, pnl |-> pnl,
     pnl_original |-> trade.pnl_original, entry_equity |-> current_equity,
     exit_equity |-> exit_equity, risk_pct |-> Some(trade.risk_pct),
     mae_original |-> trade.mae_original, mfe_original |-> trade.mfe_original]

\* variant: the closed position stays in the dict
RemovePositionSkipped(positions, position_id) == positions

\* if position_id in self.open_positions: del self.open_positions[position_id]
RemovePosition(positions, position_id) ==
    IF position_id \in Keys(positions) THEN DictDel(positions, position_id)
    ELSE positions

ClosePosition ==
    /\ pc = "close"
    /\ LET trade == all_trades[i + 1]
           exit_equity == _get_current_equity(m1_data, cash, open_positions,
                                              trade.close_time)
           pnl == calculate_pnl(m1_data, trade.type, trade.symbol, trade.open_price,
                      trade.close_price, frame[1].position_size, trade.close_time)
       IN  IF pnl.raised
           THEN /\ pc' = "raised"
                /\ UNCHANGED <<cash, open_positions, equity_curve, trade_log, i, frame>>
           ELSE /\ cash' = UpdateCash(cash, pnl.value)
                /\ trade_log' = Append(trade_log,
                       ClosedTrade(trade, frame[1].position_size, pnl.value,
                                   frame[1].current_equity, exit_equity))
                /\ open_positions' = RemovePosition(open_positions,
                                                    frame[1].position_id)
                /\ equity_curve' = Append(equity_curve,
                       _update_equity_curve(m1_data, cash', open_positions',
                                            trade.close_time))
                /\ i' = i + 1
                /\ frame' = <<>>
                /\ pc' = "loop"
    /\ UNCHANGED <<inputs, result>>

(***************************************************************************)
(* _close_all_positions                                                    *)
(***************************************************************************)
ForcedTrade(position, end_date, close_price, pnl, c) ==
    [algo_name |-> position.algo_name, ticket |-> position.ticket,
     symbol |-> position.symbol, type |-> position.type,
     open_time |-> position.open_time, close_time |-> end_date,
     open_price |-> position.open_price, close_price |-> close_price,
     sl_price |-> position.sl_price, size |-> position.size,
     size_original |-> position.size_original, pnl |-> pnl,
     pnl_original |-> NaN, entry_equity |-> position.entry_equity,
     exit_equity |-> c, risk_pct |-> NaN,
     mae_original |-> NaN, mfe_original |-> NaN]

\* variant: the position is priced at its own open_time, not at end_date
ForceCloseAtOpenTime(m1, st, position, end_date) ==
    LET close_price == get_price_at_time(m1, position.symbol,
                                         position.open_time, "close")
        pnl == IF close_price.raised THEN Raise
               ELSE calculate_pnl(m1, position.type, position.symbol,
                        position.open_price, close_price.value, position.size,
                        end_date)
        removed == SelectSeq(st.open_positions,
                             LAMBDA p : p.position_id # position.position_id)
    IN  IF pnl.raised
        THEN [st EXCEPT !.open_positions = removed]
        ELSE [cash |-> st.cash + pnl.value,
              trade_log |-> Append(st.trade_log,
                  ForcedTrade(position, end_date, close_price.value, pnl.value,
                              st.cash + pnl.value)),
              open_positions |-> removed]

\* one pass of the loop: st is [cash, trade_log, open_positions]
ForceClose(m1, st, position, end_date) ==
    LET close_price == get_price_at_time(m1, position.symbol, end_date, "close")
        pnl == IF close_price.raised THEN Raise
               ELSE calculate_pnl(m1, position.type, position.symbol,
                        position.open_price, close_price.value, position.size,
                        end_date)
        removed == DictDel(st.open_positions, position.position_id)
    IN  IF pnl.raised
        THEN [st EXCEPT !.open_positions = removed]
        ELSE [cash |-> UpdateCash(st.cash, pnl.value),
              trade_log |-> Append(st.trade_log,
                  ForcedTrade(position, end_date, close_price.value, pnl.value,
                              UpdateCash(st.cash, pnl.value))),
              open_positions |-> removed]

\* variant: the loop is left at the first position that could not be priced
RECURSIVE ForceCloseEachUntilFailure(_, _, _, _)
ForceCloseEachUntilFailure(m1, st, snapshot, end_date) ==
    IF snapshot = <<>> THEN st
    ELSE LET next == ForceClose(m1, st, Head(snapshot), end_date)
         IN  IF Len(next.trade_log) = Len(st.trade_log) THEN next
             ELSE ForceCloseEachUntilFailure(m1, next, Tail(snapshot), end_date)

\* the loop over the snapshot list(self.open_positions.items())
RECURSIVE ForceCloseEach(_, _, _, _)
ForceCloseEach(m1, st, snapshot, end_date) ==
    IF snapshot = <<>> THEN st
    ELSE ForceCloseEach(m1, ForceClose(m1, st, Head(snapshot), end_date),
                        Tail(snapshot), end_date)

CloseAllPositions ==
    /\ pc = "loop"
    /\ i = Len(all_trades)
    /\ LET st == ForceCloseEach(m1_data,
                     [cash |-> cash, trade_log |-> trade_log,
                      open_positions |-> open_positions],
                     open_positions, DateEnd)
       IN  /\ cash' = st.cash
           /\ trade_log' = st.trade_log
           /\ open_positions' = st.open_positions
           /\ equity_curve' = Append(equity_curve,
                  _update_equity_curve(m1_data, st.cash, st.open_positions, DateEnd))
    /\ pc' = "closed_all"
    /\ UNCHANGED <<inputs, i, frame, result>>

\* variant: final_equity is read from the first sample
ReturnStartingEquity ==
    /\ pc = "closed_all"
    /\ result' = <<[total_trades |-> Len(trade_log),
                    starting_balance |-> starting_balance,
                    final_equity |-> equity_curve[1].equity]>>
    /\ pc' = "done"
    /\ UNCHANGED <<inputs, cash, open_positions, equity_curve, trade_log, i, frame>>

\* run, after _close_all_positions: the returned dict; its equity_curve and
\* trades are the engine's own lists, read from equity_curve and trade_log
Return ==
    /\ pc = "closed_all"
    /\ result' = <<[total_trades |-> Len(trade_log),
                    starting_balance |-> starting_balance,
                    final_equity |-> equity_curve[Len(equity_curve)].equity]>>
    /\ pc' = "done"
    /\ UNCHANGED <<inputs, cash, open_positions, equity_curve, trade_log, i, frame>>

Next ==
    \/ RunStart
    \/ OpenPosition
    \/ TrackPositionM1
    \/ ClosePosition
    \/ CloseAllPositions
    \/ Return

Spec == Init /\ [][Next]_vars

\* run() is one sequential call: once started it keeps taking its next step
SpecLive == Init /\ [][Next]_vars /\ WF_vars(Next)


(***************************************************************************)
(* _close_all_positions on its own: entered with any open set.  run        *)
(* enters it with the open set _process_trade leaves behind; here the set  *)
(* is any set of at most MaxOpen positions, no trade having been replayed. *)
(***************************************************************************)
HeldChoices ==
    {[algo_name |-> a, symbol |-> sym, type |-> ty, open_time |-> DateStart,
      open_price |-> 100, sl_price |-> IF sym = "XAUUSD" THEN 99 ELSE 98,
      size |-> lots, size_original |-> 1 * LotScale] :
        a \in {AlgoNames[1], AlgoNames[2]}, sym \in TradedSymbols,
        ty \in TradeTypes, lots \in {0, 10 * LotScale}}

HeldPositions(n, balance) ==
    {[k \in 1..n |->
        [f \in DOMAIN held[k] \cup {"position_id", "ticket", "entry_equity"} |->
            CASE f = "position_id"  -> PositionId(held[k].algo_name, k)
              [] f = "ticket"       -> k
              [] f = "entry_equity" -> balance
              [] OTHER              -> held[k][f]]] :
        held \in [1..n -> HeldChoices]}

InitHorizon ==
    /\ m1_data \in M1Inputs
    /\ backtest_data = <<>>
    /\ generate_m1_equity = FALSE
    /\ starting_balance = PortfolioBalance * MoneyScale
    /\ cash = starting_balance
    /\ equity = starting_balance
    /\ open_positions \in UNION {HeldPositions(n, starting_balance) : n \in 0..MaxOpen}
    /\ equity_curve = <<InitialSample(DateStart, starting_balance)>>
    /\ trade_log = <<>>
    /\ all_trades = <<>>
    /\ i = 0
    /\ frame = <<>>
    /\ result = <<>>
    /\ pc = "loop"

NextHorizon ==
    \/ CloseAllPositions
    \/ Return

SpecHorizon == InitHorizon /\ [][NextHorizon]_vars

(***************************************************************************)
(* _process_trade on its own: entered for one trade with any open set.     *)
(* run enters it for every trade with the open set the trades before it    *)
(* left; here the set is any set of fewer than MaxOpen other positions.    *)
(***************************************************************************)
OneTradeInputs ==
    {<<[algo_name |-> AlgoNames[1], df |-> DataFrame(AlgoNames[1], ra)]>> :
        ra \in Sheets(1)}

OtherPositions(balance) ==
    {held \in UNION {HeldPositions(n, balance) : n \in 0..(MaxOpen - 1)} :
        PositionId(AlgoNames[1], 1) \notin Keys(held)}

InitTrack ==
    /\ m1_data \in M1Inputs
    /\ backtest_data \in OneTradeInputs
    /\ generate_m1_equity \in BOOLEAN
    /\ starting_balance = PortfolioBalance * MoneyScale
    /\ cash = starting_balance
    /\ equity = starting_balance
    /\ open_positions \in OtherPositions(starting_balance)
    /\ equity_curve = <<InitialSample(DateStart, starting_balance)>>
    /\ trade_log = <<>>
    /\ all_trades = _combine_all_trades(backtest_data)
    /\ i = 0
    /\ frame = <<>>
    /\ result = <<>>
    /\ pc = "loop"

NextTrack ==
    \/ OpenPosition
    \/ TrackPositionM1
    \/ ClosePosition
    \/ CloseAllPositions
    \/ Return

SpecTrack == InitTrack /\ [][NextTrack]_vars

(***************************************************************************)
(* run on backtests with degenerate stops: the first strategy's sheet      *)
(* holds Buy trades whose stop price is their entry price.                 *)
(***************************************************************************)
DegenerateRows ==
    {[row EXCEPT !.sl_price = row.open_price] :
        row \in {r \in RowChoices : r.type = "Buy"}}

DegenerateSheets(n) == {rows \in [1..n -> DegenerateRows] : IsLoadable(rows)}

DegenerateInputs ==
    {<<[algo_name |-> AlgoNames[1], df |-> DataFrame(AlgoNames[1], ra)],
       [algo_name |-> AlgoNames[2], df |-> DataFrame(AlgoNames[2], rb)]>> :
        <<ra, rb>> \in UNION {DegenerateSheets(na) \X Sheets(nb) :
            <<na, nb>> \in {x \in (0..MaxTrades) \X (0..MaxTrades) :
                               x[1] + x[2] <= MaxTrades}}}

InitDegenerate ==
    /\ m1_data \in M1Inputs
    /\ backtest_data \in DegenerateInputs
    /\ generate_m1_equity \in BOOLEAN
    /\ starting_balance = PortfolioBalance * MoneyScale
    /\ cash = starting_balance
    /\ equity = starting_balance
    /\ open_positions = <<>>
    /\ equity_curve = <<>>
    /\ trade_log = <<>>
    /\ all_trades = _combine_all_trades(backtest_data)
    /\ i = 0
    /\ frame = <<>>
    /\ result = <<>>
    /\ pc = "constructed"

SpecDegenerate == InitDegenerate /\ [][Next]_vars

\* Runs whose first strategy trades through a gap: a Buy of XAUUSD with the
\* stop one point under the entry that is closed 60 points under it, a loss
\* of 60 times the amount risked.
RuinRows ==
    {[row EXCEPT !.close_price = 40] :
        row \in {r \in RowChoices : r.type = "Buy" /\ r.symbol = "XAUUSD"}}

RuinSheets(n) == {rows \in [1..n -> RuinRows] : IsLoadable(rows)}

RuinInputs ==
    {<<[algo_name |-> AlgoNames[1], df |-> DataFrame(AlgoNames[1], ra)],
       [algo_name |-> AlgoNames[2], df |-> DataFrame(AlgoNames[2], rb)]>> :
        <<ra, rb>> \in UNION {Sheets(na) \X RuinSheets(nb) :
            <<na, nb>> \in {x \in (0..MaxTrades) \X (0..MaxTrades) :
                               x[1] + x[2] <= MaxTrades}}}

InitRuin ==
    /\ m1_data \in M1Inputs
    /\ backtest_data \in RuinInputs
    /\ generate_m1_equity \in BOOLEAN
    /\ starting_balance = PortfolioBalance * MoneyScale
    /\ cash = starting_balance
    /\ equity = starting_balance
    /\ open_positions = <<>>
    /\ equity_curve = <<>>
    /\ trade_log = <<>>
    /\ all_trades = _combine_all_trades(backtest_data)
    /\ i = 0
    /\ frame = <<>>
    /\ result = <<>>
    /\ pc = "constructed"

SpecRuin == InitRuin /\ [][Next]_vars

(***************************************************************************)
(* The functions on their own: one call, with its arguments in frame and   *)
(* its return value (or the exception it raises) in result.                *)
(***************************************************************************)
\* specs of a symbol INSTRUMENT_SPECS does not list, and specs with no
\* contract size
ZeroContractSpecs ==
    [contract_size |-> 0, point_value_num |-> 1, point_value_den |-> 1,
     currency |-> "USD"]

SizingSpecs ==
    {get_instrument_specs("OTHER"), get_instrument_specs("XAUUSD"),
     get_instrument_specs("DE40"), ZeroContractSpecs}

SizingEquities == {100000 * MoneyScale, 99950 * MoneyScale, 12345 * MoneyScale}

RiskAmountCalls ==
    [fn : {"calculate_risk_amount"}, equity : SizingEquities,
     risk_pct : {0, 1, 2}, entry_price : {100}, sl_price : {98, 99, 100, 103},
     specs : SizingSpecs]

SizeCalls ==
    [fn : {"calculate_size"}, equity : SizingEquities, risk_pct : {0, 1, 2},
     symbol : {"XAUUSD", "DE40", "OTHER"}, entry_price : {100},
     sl_price : {98, 99, 100, 103}, timestamp : {DateStart}]

PnlCalls ==
    [fn : {"calculate_pnl"}, trade_type : {"Buy", "Sell", "buy", "SELL"},
     symbol : {"XAUUSD", "DE40", "EURUSD", "OTHER"}, entry_price : {100},
     exit_price : {90, 100, 110}, size : {0, LotScale \div 2, 1 * LotScale},
     timestamp : DateStart..DateEnd]

PriceCalls ==
    [fn : {"get_price_at_time"},
     symbol : {"XAUUSD", "DE40", "EURUSD", "GBPUSD"},
     timestamp : (DateStart - 1)..(DateEnd + 1),
     price_type : {"open", "high", "low", "close"}]

FxCalls ==
    [fn : {"get_fx_rate"},
     currency_pair : {"EURUSD", "GBPUSD", "USDJPY", "CHFUSD"},
     timestamp : (DateStart - 1)..(DateEnd + 1)]

SeriesOver(values) == UNION {[1..n -> values] : n \in 0..MaxLen}

DrawdownCalls ==
    [fn : {"find_drawdown_periods"},
     drawdown_series : SeriesOver({-2 * DdScale, -1 * DdScale, 0, 1 * DdScale})]

\* metrics.py: the periods of the drawdown series of an equity series
EquityDrawdownCalls ==
    [fn : {"drawdown_periods_of_equity"},
     equity_series : SeriesOver({90, 95, 100, 110, 120})]

\* ---- analysis/attribution.py ----

\* a float quotient kept exact, as numerator and denominator
Ratio(n, d) == [num |-> n, den |-> d]

\* df[column].sum()
ColumnSum(trades, column) == SumSeq([k \in 1..Len(trades) |-> trades[k][column]])

\* the metrics of the winning trades only
_calculate_algo_metrics_wins_only(trades) ==
    LET winning_trades == SelectSeq(trades, LAMBDA t : t.pnl > 0)
        num_wins == Len(winning_trades)
        gross_profit == IF num_wins > 0 THEN ColumnSum(winning_trades, "pnl") ELSE 0
    IN  [total_trades |-> num_wins,
         total_pnl |-> gross_profit,
         winning_trades |-> num_wins,
         losing_trades |-> 0,
         win_rate |-> IF num_wins > 0 THEN Ratio(num_wins * 100, num_wins) ELSE Ratio(0, 1),
         avg_win |-> IF num_wins > 0 THEN Ratio(gross_profit, num_wins) ELSE Ratio(0, 1),
         avg_loss |-> Ratio(0, 1),
         gross_profit |-> gross_profit,
         gross_loss |-> 0,
         profit_factor |-> Ratio(0, 1),
         expectancy |-> Ratio(gross_profit, num_wins)]

_calculate_algo_metrics(trades) ==
    LET total_pnl == ColumnSum(trades, "pnl")
        winning_trades == SelectSeq(trades, LAMBDA t : t.pnl > 0)
        losing_trades == SelectSeq(trades, LAMBDA t : t.pnl < 0)
        num_trades == Len(trades)
        num_wins == Len(winning_trades)
        num_losses == Len(losing_trades)
        win_rate == IF num_trades > 0 THEN Ratio(num_wins * 100, num_trades)
                    ELSE Ratio(0, 1)
        avg_win == IF num_wins > 0
                   THEN Ratio(ColumnSum(winning_trades, "pnl"), num_wins)
                   ELSE Ratio(0, 1)
        avg_loss == IF num_losses > 0
                    THEN Ratio(ColumnSum(losing_trades, "pnl"), num_losses)
                    ELSE Ratio(0, 1)
        gross_profit == IF num_wins > 0 THEN ColumnSum(winning_trades, "pnl") ELSE 0
        gross_loss == IF num_losses > 0 THEN Abs(ColumnSum(losing_trades, "pnl")) ELSE 0
        profit_factor == IF gross_loss > 0 THEN Ratio(gross_profit, gross_loss)
                         ELSE Ratio(0, 1)
    IN  [total_trades |-> num_trades,
         total_pnl |-> total_pnl,
         winning_trades |-> num_wins,
         losing_trades |-> num_losses,
         win_rate |-> win_rate,
         avg_win |-> avg_win,
         avg_loss |-> avg_loss,
         gross_profit |-> gross_profit,
         gross_loss |-> gross_loss,
         profit_factor |-> profit_factor,
         expectancy |-> Ratio(total_pnl, num_trades)]

\* the attribution dict: one entry per value of trades['algo_name'].unique(),
\* {} for an empty log
analyze(trades) ==
    [algo_name \in {trades[k].algo_name : k \in 1..Len(trades)} |->
        _calculate_algo_metrics(
            SelectSeq(trades, LAMBDA t : t.algo_name = algo_name))]

\* trade logs as the analyzer reads them: the strategy and the P&L of each row
AnalyzeCalls ==
    [fn : {"analyze"},
     trades : SeriesOver([algo_name : {AlgoNames[k] : k \in DOMAIN AlgoNames},
                         pnl : {-50, 0, 120}])]

\* equity series of an account that may be in debt
DrawdownSeriesCalls ==
    [fn : {"calculate_drawdown_series"},
     equity_series : SeriesOver({-200, -100, 100, 110})]

InitCalls ==
    /\ m1_data \in M1Inputs
    /\ backtest_data = <<>>
    /\ generate_m1_equity = FALSE
    /\ starting_balance = PortfolioBalance * MoneyScale
    /\ cash = starting_balance
    /\ equity = starting_balance
    /\ open_positions = <<>>
    /\ equity_curve = <<>>
    /\ trade_log = <<>>
    /\ all_trades = <<>>
    /\ i = 0
    /\ \/ frame \in {<<call>> : call \in RiskAmountCalls}
       \/ frame \in {<<call>> : call \in SizeCalls}
       \/ frame \in {<<call>> : call \in PnlCalls}
       \/ frame \in {<<call>> : call \in PriceCalls}
       \/ frame \in {<<call>> : call \in FxCalls}
       \/ frame \in {<<call>> : call \in DrawdownCalls}
       \/ frame \in {<<call>> : call \in EquityDrawdownCalls}
       \/ frame \in {<<call>> : call \in DrawdownSeriesCalls}
       \/ frame \in {<<call>> : call \in AnalyzeCalls}
    /\ result = <<>>
    /\ pc = "call"

Returned(value) ==
    /\ result' = <<value>>
    /\ pc' = "returned"
    /\ UNCHANGED <<inputs, cash, open_positions, equity_curve, trade_log, i, frame>>

CallCalculateRiskAmount ==
    /\ pc = "call"
    /\ frame[1].fn = "calculate_risk_amount"
    /\ Returned(calculate_risk_amount(frame[1].equity, frame[1].risk_pct,
                    frame[1].entry_price, frame[1].sl_price, frame[1].specs))

CallCalculateSize ==
    /\ pc = "call"
    /\ frame[1].fn = "calculate_size"
    /\ Returned(calculate_size(m1_data, frame[1].equity, frame[1].risk_pct,
                    frame[1].symbol, frame[1].entry_price, frame[1].sl_price,
                    frame[1].timestamp))

CallCalculatePnl ==
    /\ pc = "call"
    /\ frame[1].fn = "calculate_pnl"
    /\ Returned(calculate_pnl(m1_data, frame[1].trade_type, frame[1].symbol,
                    frame[1].entry_price, frame[1].exit_price, frame[1].size,
                    frame[1].timestamp))

CallGetPriceAtTime ==
    /\ pc = "call"
    /\ frame[1].fn = "get_price_at_time"
    /\ Returned(get_price_at_time(m1_data, frame[1].symbol, frame[1].timestamp,
                                  frame[1].price_type))

CallGetFxRate ==
    /\ pc = "call"
    /\ frame[1].fn = "get_fx_rate"
    /\ Returned(get_fx_rate(m1_data, frame[1].currency_pair, frame[1].timestamp))

CallFindDrawdownPeriods ==
    /\ pc = "call"
    /\ frame[1].fn = "find_drawdown_periods"
    /\ Returned(find_drawdown_periods(frame[1].drawdown_series))

CallDrawdownPeriodsOfEquity ==
    /\ pc = "call"
    /\ frame[1].fn = "drawdown_periods_of_equity"
    /\ Returned(find_drawdown_periods(
                    calculate_drawdown_series(frame[1].equity_series)))

CallCalculateDrawdownSeries ==
    /\ pc = "call"
    /\ frame[1].fn = "calculate_drawdown_series"
    /\ Returned(calculate_drawdown_series(frame[1].equity_series))

CallAnalyze ==
    /\ pc = "call"
    /\ frame[1].fn = "analyze"
    /\ Returned(analyze(frame[1].trades))

NextCalls ==
    \/ CallCalculateRiskAmount
    \/ CallCalculateSize
    \/ CallCalculatePnl
    \/ CallGetPriceAtTime
    \/ CallGetFxRate
    \/ CallFindDrawdownPeriods
    \/ CallDrawdownPeriodsOfEquity
    \/ CallCalculateDrawdownSeries
    \/ CallAnalyze

SpecCalls == InitCalls /\ [][NextCalls]_vars


(***************************************************************************)
(* analysis/metrics.py: MetricsCalculator.                                 *)
(*                                                                         *)
(* DataFrames are objects.  heap is the sequence of the frames that exist  *)
(* during a call and a reference is an index into it: heap[1] is           *)
(* results['equity_curve'] and heap[2] is results['trades'].  A frame is   *)
(* its index and its rows, a row a record of its columns.  An assignment   *)
(* to a column and set_index(inplace=True) change the frame they are       *)
(* applied to; groupby, resample and boolean selection give new values.    *)
(* A float statistic that needs a root or a power is kept as the name of   *)
(* the statistic and the values it is taken over.                          *)
(***************************************************************************)
Frame(index, rows) == [index |-> index, rows |-> rows]
RangeIndex(n) == [k \in 1..n |-> k - 1]

\* the same object under a second name
copy_alias(heap, ref) == [heap |-> heap, ref |-> ref]

\* df.copy(): a new object with the same content
copy(heap, ref) == [heap |-> Append(heap, heap[ref]), ref |-> Len(heap) + 1]

\* df[column] is readable
HasColumn(df, column) == \A k \in DOMAIN df.rows : column \in DOMAIN df.rows[k]

\* df[column] = values, on the object itself
SetColumn(heap, ref, column, values) ==
    [heap EXCEPT ![ref] =
        Frame(heap[ref].index,
              [k \in DOMAIN heap[ref].rows |->
                  [c \in DOMAIN heap[ref].rows[k] \cup {column} |->
                      IF c = column THEN values[k] ELSE heap[ref].rows[k][c]]])]

\* df.set_index(column, inplace=True)
SetIndex(heap, ref, column) ==
    [heap EXCEPT ![ref] =
        Frame([k \in DOMAIN heap[ref].rows |-> heap[ref].rows[k][column]],
              [k \in DOMAIN heap[ref].rows |->
                  [c \in DOMAIN heap[ref].rows[k] \ {column} |->
                      heap[ref].rows[k][c]]])]

\* datetime.dt.date, and the month bin of resample('M')
Date(timestamp) == timestamp \div BarsPerDay
Month(timestamp) == timestamp \div (BarsPerDay * DaysPerMonth)

RECURSIVE Sorted(_)
Sorted(S) == IF S = {} THEN <<>> ELSE <<Min(S)>> \o Sorted(S \ {Min(S)})

\* groupby(key)[column].last(): per key in ascending order, the value of
\* the last row of the key; keys and values are sequences of equal length
GroupLast(keys, values) ==
    LET groups == Sorted({keys[k] : k \in DOMAIN keys})
    IN  [j \in 1..Len(groups) |->
            [key |-> groups[j],
             value |-> values[Max({k \in DOMAIN keys : keys[k] = groups[j]})]]]

\* series.pct_change().dropna()
pct_change(series) ==
    [k \in 1..(Len(series) - 1) |-> Ratio(series[k + 1] - series[k], series[k])]

Positive(ratio) == ratio.num * ratio.den > 0
Negative(ratio) == ratio.num * ratio.den < 0
CountPositive(series) == Cardinality({k \in DOMAIN series : Positive(series[k])})
CountNegative(series) == Cardinality({k \in DOMAIN series : Negative(series[k])})
Statistic(name, values) == [statistic |-> name, of |-> values]
Column(rows, column) == [k \in DOMAIN rows |-> rows[k][column]]

\* "Resample to daily": copy the curve, add the date column to the copy,
\* take the last equity of each date.  KeyError when the curve has lost
\* its datetime column.
ResampleDaily(heap) ==
    LET daily_equity == copy(heap, 1)
    IN  IF ~HasColumn(daily_equity.heap[daily_equity.ref], "datetime")
        THEN [heap |-> daily_equity.heap, value |-> Raise]
        ELSE LET dated ==
                     SetColumn(daily_equity.heap, daily_equity.ref, "date",
                               [k \in DOMAIN heap[1].rows |->
                                   Date(daily_equity.heap[daily_equity.ref]
                                            .rows[k].datetime)])
                 rows == dated[daily_equity.ref].rows
                 grouped == GroupLast(Column(rows, "date"), Column(rows, "equity"))
             IN  [heap |-> dated,
                  value |-> Ok([date |-> Column(grouped, "key"),
                                equity |-> Column(grouped, "value")])]

_calculate_basic_metrics(heap, results) ==
    IF ~HasColumn(heap[1], "datetime")
    THEN [heap |-> heap, value |-> Raise]
    ELSE LET datetimes == {heap[1].rows[k].datetime : k \in DOMAIN heap[1].rows}
             start_date == Min(datetimes)
             end_date == Max(datetimes)
             days == Date(end_date - start_date)
             total_return ==
                 Ratio((results.final_equity - results.starting_balance) * 100,
                       results.starting_balance)
         IN  [heap |-> heap,
              value |-> Ok([starting_balance |-> results.starting_balance,
                            final_equity |-> results.final_equity,
                            total_return |-> total_return,
                            total_return_pct |-> total_return,
                            cagr |-> IF days > 0
                                     THEN Statistic("cagr",
                                              <<results.final_equity,
                                                results.starting_balance, days>>)
                                     ELSE Ratio(0, 1),
                            years |-> Ratio(days * 100, 36525),
                            start_date |-> start_date,
                            end_date |-> end_date])]

_calculate_returns_metrics(heap) ==
    CHOOSE step \in {
        IF daily.value.raised THEN daily
        ELSE
        LET daily_returns == pct_change(daily.value.value.equity)
            monthly_equity == copy(daily.heap, 1)
        IN  IF ~HasColumn(monthly_equity.heap[monthly_equity.ref], "datetime")
            THEN [heap |-> monthly_equity.heap, value |-> Raise]
            ELSE
            LET indexed == SetIndex(monthly_equity.heap, monthly_equity.ref,
                                    "datetime")
                frame_ == indexed[monthly_equity.ref]
                months == [k \in DOMAIN frame_.index |-> Month(frame_.index[k])]
                monthly == GroupLast(months, Column(frame_.rows, "equity"))
                monthly_returns == pct_change(Column(monthly, "value"))
            IN  [heap |-> indexed,
                 value |-> Ok(
                     [avg_daily_return |-> Statistic("mean", daily_returns),
                      avg_monthly_return |-> Statistic("mean", monthly_returns),
                      std_daily_return |-> Statistic("std", daily_returns),
                      std_monthly_return |-> Statistic("std", monthly_returns),
                      best_day |-> Statistic("max", daily_returns),
                      worst_day |-> Statistic("min", daily_returns),
                      best_month |-> Statistic("max", monthly_returns),
                      worst_month |-> Statistic("min", monthly_returns),
                      positive_days |-> CountPositive(daily_returns),
                      negative_days |-> CountNegative(daily_returns),
                      positive_months |-> CountPositive(monthly_returns),
                      negative_months |-> CountNegative(monthly_returns)])]
        : daily \in {ResampleDaily(heap)}} : TRUE

_calculate_risk_metrics(heap) ==
    CHOOSE step \in {
        IF daily.value.raised THEN daily
        ELSE
        LET dd_series == calculate_drawdown_series(daily.value.value.equity)
            max_dd == Min({dd_series[k] : k \in DOMAIN dd_series})
            dd_periods == find_drawdown_periods(dd_series)
            durations == Column(dd_periods, "duration")
            daily_returns == pct_change(daily.value.value.equity)
        IN  [heap |-> daily.heap,
             value |-> Ok(
                 [max_drawdown |-> max_dd,
                  max_drawdown_pct |-> max_dd,
                  longest_dd_days |->
                      IF dd_periods # <<>>
                      THEN Max({durations[k] : k \in DOMAIN durations}) ELSE 0,
                  avg_dd_duration |->
                      IF dd_periods # <<>>
                      THEN Ratio(SumSeq(durations), Len(durations))
                      ELSE Ratio(0, 1),
                  num_dd_periods |-> Len(dd_periods),
                  annual_volatility |-> Statistic("std", daily_returns)])]
        : daily \in {ResampleDaily(heap)}} : TRUE

_calculate_trade_metrics(heap) ==
    IF Len(heap[2].rows) = 0
    THEN [heap |-> heap,
          value |-> Ok([total_trades |-> 0, winning_trades |-> 0,
                        losing_trades |-> 0, win_rate |-> Ratio(0, 1),
                        avg_win |-> Ratio(0, 1), avg_loss |-> Ratio(0, 1),
                        largest_win |-> 0, largest_loss |-> 0,
                        profit_factor |-> Ratio(0, 1),
                        expectancy |-> Ratio(0, 1)])]
    ELSE LET trades == copy(heap, 2)
             rows == trades.heap[trades.ref].rows
             wins == Column(SelectSeq(rows, LAMBDA t : t.pnl > 0), "pnl")
             losses == Column(SelectSeq(rows, LAMBDA t : t.pnl < 0), "pnl")
         IN  [heap |-> trades.heap,
              value |-> Ok(
                  [total_trades |-> Len(rows),
                   winning_trades |-> Len(wins),
                   losing_trades |-> Len(losses),
                   win_rate |-> Ratio(Len(wins) * 100, Len(rows)),
                   avg_win |-> IF Len(wins) > 0 THEN Ratio(SumSeq(wins), Len(wins))
                               ELSE Ratio(0, 1),
                   avg_loss |-> IF Len(losses) > 0
                                THEN Ratio(SumSeq(losses), Len(losses))
                                ELSE Ratio(0, 1),
                   largest_win |-> IF Len(wins) > 0
                                   THEN Max({wins[k] : k \in DOMAIN wins}) ELSE 0,
                   largest_loss |-> IF Len(losses) > 0
                                    THEN Min({losses[k] : k \in DOMAIN losses})
                                    ELSE 0,
                   gross_profit |-> IF Len(wins) > 0 THEN SumSeq(wins) ELSE 0,
                   gross_loss |-> IF Len(losses) > 0 THEN Abs(SumSeq(losses)) ELSE 0,
                   profit_factor |-> IF Len(losses) > 0 /\ Abs(SumSeq(losses)) > 0
                                     THEN Ratio(SumSeq(wins), Abs(SumSeq(losses)))
                                     ELSE Ratio(0, 1),
                   expectancy |-> Ratio(ColumnSum(rows, "pnl"), Len(rows)),
                   avg_trade |-> Ratio(ColumnSum(rows, "pnl"), Len(rows)),
                   median_trade |-> Statistic("median", Column(rows, "pnl"))])]

_calculate_drawdown_metrics(heap, results) ==
    CHOOSE step \in {
        IF daily.value.raised THEN daily
        ELSE
        LET dd_series == calculate_drawdown_series(daily.value.value.equity)
            dd_periods == find_drawdown_periods(dd_series)
            durations == Column(dd_periods, "duration")
            depths == [k \in DOMAIN dd_periods |-> Abs(dd_periods[k].max_dd)]
            net_profit == results.final_equity - results.starting_balance
            max_dd_dollars ==
                Ratio(Abs(Min({dd_series[k] : k \in DOMAIN dd_series}))
                          * results.starting_balance,
                      100 * DdScale)
        IN  [heap |-> daily.heap,
             value |-> Ok(
                 IF dd_periods = <<>>
                 THEN [max_dd_duration |-> 0, avg_dd_depth |-> Ratio(0, 1),
                       recovery_factor |-> Ratio(0, 1)]
                 ELSE [max_dd_duration |->
                           Max({durations[k] : k \in DOMAIN durations}),
                       avg_dd_depth |-> Ratio(SumSeq(depths), Len(depths)),
                       recovery_factor |->
                           IF max_dd_dollars.num > 0
                           THEN Ratio(net_profit * max_dd_dollars.den,
                                      max_dd_dollars.num)
                           ELSE Ratio(0, 1)])]
        : daily \in {ResampleDaily(heap)}} : TRUE

_calculate_risk_adjusted_metrics(heap, results) ==
    CHOOSE step \in {
        IF daily.value.raised THEN daily
        ELSE
        LET daily_returns == pct_change(daily.value.value.equity)
            dates == daily.value.value.date
            days == dates[Len(dates)] - dates[1]
            dd_series == calculate_drawdown_series(daily.value.value.equity)
            max_dd == Abs(Min({dd_series[k] : k \in DOMAIN dd_series}))
        IN  [heap |-> daily.heap,
             value |-> Ok(
                 IF Len(daily_returns) = 0
                 THEN [sharpe_ratio |-> Ratio(0, 1), sortino_ratio |-> Ratio(0, 1),
                       calmar_ratio |-> Ratio(0, 1)]
                 ELSE [sharpe_ratio |-> Statistic("sharpe", daily_returns),
                       sortino_ratio |->
                           Statistic("sortino",
                                     <<daily_returns,
                                       SelectSeq(daily_returns, Negative)>>),
                       calmar_ratio |->
                           IF days > 0 /\ max_dd > 0
                           THEN Statistic("calmar",
                                    <<results.final_equity,
                                      results.starting_balance, days, max_dd>>)
                           ELSE Ratio(0, 1)])]
        : daily \in {ResampleDaily(heap)}} : TRUE

\* metrics.update(more), or the exception that ended the call
Update(state, step) ==
    IF state.value.raised THEN state
    ELSE IF step.value.raised THEN step
    ELSE [heap |-> step.heap,
          value |-> Ok([key \in DOMAIN state.value.value
                                \cup DOMAIN step.value.value |->
                           IF key \in DOMAIN step.value.value
                           THEN step.value.value[key]
                           ELSE state.value.value[key]])]

\* each stage is the one-element set of the state after a method, so that
\* the next method starts from the computed state
calculate_all(heap, results) ==
    LET metrics == {[heap |-> heap, value |-> Ok(<<>>)]}
        basic == UNION {{Update(s, m) :
                            m \in {_calculate_basic_metrics(s.heap, results)}} :
                        s \in metrics}
        returns == UNION {{Update(s, m) :
                              m \in {_calculate_returns_metrics(s.heap)}} :
                          s \in basic}
        risk == UNION {{Update(s, m) : m \in {_calculate_risk_metrics(s.heap)}} :
                       s \in returns}
        trade == UNION {{Update(s, m) : m \in {_calculate_trade_metrics(s.heap)}} :
                        s \in risk}
        drawdown == UNION {{Update(s, m) :
                               m \in {_calculate_drawdown_metrics(s.heap, results)}} :
                           s \in trade}
        risk_adjusted ==
            UNION {{Update(s, m) :
                       m \in {_calculate_risk_adjusted_metrics(s.heap, results)}} :
                   s \in drawdown}
    IN  CHOOSE s \in risk_adjusted : TRUE

\* the times of a run whose window spans two months: the first bar, the
\* next bar, the next day and the next month
MetricsTimes ==
    {DateStart, DateStart + 1, DateStart + BarsPerDay,
     DateStart + BarsPerDay * DaysPerMonth}

\* the closed trades of a run, by the columns the calculator reads
MetricsTrades ==
    UNION {[1..n -> [close_time : MetricsTimes, pnl : {-10, 0, 20}]] :
               n \in 0..MaxTrades}

\* the results dict run() returns for these trades: the initial sample and
\* one sample per close, with the position set empty
SimulationResult(balance, trades) ==
    LET cash_after(n) == balance + SumSeq([k \in 1..n |-> trades[k].pnl])
    IN  [equity_curve |->
             Frame(RangeIndex(Len(trades) + 1),
                   [k \in 1..(Len(trades) + 1) |->
                       IF k = 1 THEN EquitySample(DateStart, balance, balance, 0, 0)
                       ELSE EquitySample(trades[k - 1].close_time,
                                         cash_after(k - 1), cash_after(k - 1),
                                         0, 0)]),
         trades |-> Frame(RangeIndex(Len(trades)), trades),
         total_trades |-> Len(trades),
         starting_balance |-> balance,
         final_equity |-> cash_after(Len(trades))]

\* MetricsCalculator(results, config): equity_curve and trade_log are the
\* two input frames as they are now, result the results dict as it was
\* handed over, frame the bundles returned so far
InitMetrics ==
    /\ m1_data = <<>>
    /\ backtest_data = <<>>
    /\ generate_m1_equity = FALSE
    /\ starting_balance = 100
    /\ \E trades \in MetricsTrades :
          /\ result = <<SimulationResult(starting_balance, trades)>>
          /\ all_trades = trades
    /\ equity_curve = result[1].equity_curve
    /\ trade_log = result[1].trades
    /\ cash = result[1].final_equity
    /\ equity = result[1].final_equity
    /\ open_positions = <<>>
    /\ i = 0
    /\ frame = <<>>
    /\ pc = "metrics"

CalculateAll ==
    /\ pc = "metrics"
    /\ i < MaxCalls
    /\ \E call \in {calculate_all(<<equity_curve, trade_log>>, result[1])} :
           /\ equity_curve' = call.heap[1]
           /\ trade_log' = call.heap[2]
           /\ frame' = Append(frame, call.value)
    /\ i' = i + 1
    /\ UNCHANGED <<inputs, cash, open_positions, result, pc>>

NextMetrics == CalculateAll

SpecMetrics == InitMetrics /\ [][NextMetrics]_vars


(***************************************************************************)
(* Properties.                                                             *)
(*                                                                         *)
(* MarkedPnl is a position's floating P&L marked at a timestamp, as the    *)
(* properties mean it: the P&L at the price the series gives for that      *)
(* timestamp.  It is defined for a symbol that has a series.               *)
(***************************************************************************)
HasSeries(symbol) == symbol \in DOMAIN m1_data

MarkedPnl(p, timestamp) ==
    calculate_pnl(m1_data, p.type, p.symbol, p.open_price,
                  get_price_at_time(m1_data, p.symbol, timestamp, "close").value,
                  p.size, timestamp).value

MidTrade == pc \in {"track", "close"}

\* C1 -- Path dependency: when a trade B is sized while a trade A of another
\* strategy that opened earlier has not reached its close_time, and A is in
\* profit marked at B.open_time, the equity used to size B (its
\* entry_equity) is the cash realized up to B.open_time plus the floating
\* P&L, marked at B.open_time, of the trades open at that time.
C1_RealizedBy(t) == {k \in 1..Len(trade_log) : trade_log[k].close_time <= t}
C1_OpenAt(t) == {k \in 1..Len(trade_log) : /\ trade_log[k].open_time <= t
                                           /\ t < trade_log[k].close_time}
C1_LoggedMark(k) == MarkedPnl(trade_log[k], all_trades[i + 1].open_time)
C1_Overlapped ==
    /\ MidTrade
    /\ LET B == all_trades[i + 1]
       IN  /\ \A k \in C1_OpenAt(B.open_time) : HasSeries(trade_log[k].symbol)
           /\ \E k \in C1_OpenAt(B.open_time) :
                 /\ trade_log[k].algo_name # B.algo_name
                 /\ trade_log[k].open_time < B.open_time
                 /\ C1_LoggedMark(k) > 0
C1_PathDependency ==
    C1_Overlapped =>
        LET t == all_trades[i + 1].open_time
            realized == SumSeq([k \in 1..Len(trade_log) |->
                            IF k \in C1_RealizedBy(t) THEN trade_log[k].pnl ELSE 0])
            floating == SumSeq([k \in 1..Len(trade_log) |->
                            IF k \in C1_OpenAt(t) THEN C1_LoggedMark(k) ELSE 0])
            sized_on == starting_balance + realized + floating
        IN  /\ frame[1].current_equity = sized_on
            /\ Lookup(open_positions, frame[1].position_id).entry_equity = sized_on

\* C2 -- The trades are processed in non-decreasing open_time order over all
\* strategies together, and trades with the same open_time in their
\* original order: strategy order first, row order within a strategy next.
C2_AlgoRank(algo_name) == CHOOSE r \in 1..Len(AlgoNames) : AlgoNames[r] = algo_name
C2_Before(x, y) ==
    \/ x.open_time < y.open_time
    \/ /\ x.open_time = y.open_time
       /\ \/ C2_AlgoRank(x.algo_name) < C2_AlgoRank(y.algo_name)
          \/ /\ x.algo_name = y.algo_name
             /\ x.ticket < y.ticket
C2_ProcessedInOpenTimeOrder ==
    /\ \A j, k \in 1..Len(trade_log) : j < k => C2_Before(trade_log[j], trade_log[k])
    /\ MidTrade => \A j \in 1..Len(trade_log) : C2_Before(trade_log[j], all_trades[i + 1])
C2_Witness ==
    /\ pc = "done"
    /\ \E j, k \in 1..Len(trade_log) :
          /\ j < k
          /\ C2_AlgoRank(trade_log[j].algo_name) > C2_AlgoRank(trade_log[k].algo_name)
          /\ trade_log[j].open_time < trade_log[k].open_time

\* C3 -- Every sample appended to the equity curve has equity = cash + the
\* sum of the floating P&L of the positions in the open set when it is
\* taken, each marked at the sample's timestamp.  (The samples a step
\* appends are taken with the cash and the open set the step leaves.)
C3_Floating(positions, timestamp) ==
    SumSeq([k \in 1..Len(positions) |-> MarkedPnl(positions[k], timestamp)])
C3_SampleHolds(sample, c, positions) ==
    /\ \A k \in 1..Len(positions) : HasSeries(positions[k].symbol)
    /\ sample.cash = c
    /\ sample.equity = c + C3_Floating(positions, sample.datetime)
C3_SampleEquityIsCashPlusFloating ==
    [][\A k \in (Len(equity_curve) + 1)..Len(equity_curve') :
          C3_SampleHolds(equity_curve'[k], cash', open_positions')]_vars
C3_Witness ==
    \E k \in 1..Len(equity_curve) :
        /\ equity_curve[k].open_positions > 0
        /\ equity_curve[k].equity # equity_curve[k].cash

\* C4 -- For every ClosedTrade appended to the trade log, cash after the
\* close is cash before the close plus the trade's realized P&L.
C4_RealizedIn(log, from) == SumSeq([k \in 1..(Len(log) - from) |-> log[from + k].pnl])
C4_CloseAddsRealizedPnl ==
    [][Len(trade_log') > Len(trade_log) =>
          cash' = cash + C4_RealizedIn(trade_log', Len(trade_log))]_vars
C4_Witness ==
    /\ Len(trade_log) = 2
    /\ trade_log[1].pnl > 0
    /\ trade_log[2].pnl < 0

\* C5 -- Cash changes only in a step that closes a position (a step that
\* appends a ClosedTrade, from the close of a trade or from the
\* liquidation at the horizon); every other step leaves it as it is.
C5_CloseStep ==
    /\ Len(trade_log') > Len(trade_log)
    /\ \/ pc = "close" /\ pc' = "loop"
       \/ pc = "loop" /\ pc' = "closed_all"
C5_CashChangesOnlyAtClose == [][cash' # cash => C5_CloseStep]_vars
C5_Witness ==
    /\ pc = "close"
    /\ open_positions # <<>>
    /\ cash # starting_balance
    /\ equity_curve[Len(equity_curve)].open_positions > 0
    /\ equity_curve[Len(equity_curve)].cash = cash


\* C6 -- Each position_id is in the open set at most once; a removal always
\* finds its position in the set; a position that was closed is no longer
\* in the set; the positions inserted so far are the ones removed (one
\* ClosedTrade each) and the ones still present; none is left at the end.
C6_Inserted == i + (IF MidTrade THEN 1 ELSE 0)
C6_OpenSetHoldsEachPositionOnce ==
    /\ \A j, k \in 1..Len(open_positions) :
          j # k => open_positions[j].position_id # open_positions[k].position_id
    /\ MidTrade => frame[1].position_id \in Keys(open_positions)
    /\ \A k \in 1..Len(trade_log) :
          PositionId(trade_log[k].algo_name, trade_log[k].ticket)
              \notin Keys(open_positions)
    /\ pc # "raised" => Len(open_positions) + Len(trade_log) = C6_Inserted
    /\ pc \in {"closed_all", "done"} => open_positions = <<>>
C6_Witness ==
    /\ pc = "close"
    /\ Len(trade_log) = 1
    /\ Keys(open_positions) = {frame[1].position_id}
    /\ trade_log[1].algo_name = all_trades[i + 1].algo_name

\* C7 -- Every trade goes Pending -> Open -> Closed or Pending -> Open ->
\* ForceClosed and through no other transition: it is never in two of the
\* states at once, it is closed only from Open, it never leaves Closed or
\* ForceClosed, it becomes ForceClosed only in the liquidation entered when
\* all trades were processed, and it is Closed or ForceClosed at the end.
C7_Id(n) == PositionId(all_trades[n].algo_name, all_trades[n].ticket)
C7_Logged(n) ==
    {k \in 1..Len(trade_log) :
        PositionId(trade_log[k].algo_name, trade_log[k].ticket) = C7_Id(n)}
C7_IsOpen(n) == C7_Id(n) \in Keys(open_positions)
C7_State(n) ==
    IF C7_Logged(n) # {}
    THEN IF \E k \in C7_Logged(n) : trade_log[k].risk_pct = NaN
         THEN "ForceClosed" ELSE "Closed"
    ELSE IF C7_IsOpen(n) THEN "Open" ELSE "Pending"
C7_Transitions ==
    {<<"Pending", "Pending">>, <<"Pending", "Open">>, <<"Open", "Open">>,
     <<"Open", "Closed">>, <<"Open", "ForceClosed">>,
     <<"Closed", "Closed">>, <<"ForceClosed", "ForceClosed">>}
C7_OneState ==
    \A n \in 1..Len(all_trades) :
        /\ Cardinality(C7_Logged(n)) <= 1
        /\ ~(C7_IsOpen(n) /\ C7_Logged(n) # {})
        /\ pc = "done" => C7_State(n) \in {"Closed", "ForceClosed"}
C7_Step ==
    \A n \in 1..Len(all_trades) :
        /\ <<C7_State(n), C7_State(n)'>> \in C7_Transitions
        /\ (C7_State(n) = "Open" /\ C7_State(n)' = "ForceClosed") =>
               (pc = "loop" /\ i = Len(all_trades) /\ pc' = "closed_all")
C7_TradeLifecycle == []C7_OneState /\ [][C7_Step]_vars
C7_Witness ==
    /\ pc = "done"
    /\ Len(all_trades) = 2
    /\ \A n \in 1..Len(all_trades) : C7_State(n) = "Closed"

\* C8 -- The first sample of the equity curve is at date_start with equity
\* and cash equal to the starting balance, no floating P&L and no open
\* position, whatever the trades are.
C8_FirstSampleIsStartingBalance ==
    /\ pc # "constructed" => equity_curve # <<>>
    /\ equity_curve # <<>> =>
          /\ equity_curve[1].datetime = DateStart
          /\ equity_curve[1].equity = starting_balance
          /\ equity_curve[1].cash = starting_balance
          /\ equity_curve[1].floating_pnl = 0
          /\ equity_curve[1].open_positions = 0
C8_Witness ==
    /\ pc = "done"
    /\ trade_log # <<>>
    /\ result[1].final_equity # starting_balance
    /\ Len(equity_curve) > 2

\* C9 -- Marking an open position whose symbol has no price series aborts
\* the run: the run does not go on with a substituted floating P&L, so no
\* trade of such a symbol gets past the mark taken at its close.
C9_MissingSeriesIsFatal ==
    \A k \in 1..Len(trade_log) :
        trade_log[k].risk_pct # NaN => HasSeries(trade_log[k].symbol)

\* C10 -- Liquidation at the horizon: every position in the open set (whose
\* price lookup succeeds) is closed at date_end, at the P&L of
\* price_at(symbol, date_end, close); cash grows by that P&L; one ClosedTrade
\* with close_time = date_end and null pnl_original, risk_pct, MAE and MFE
\* is appended for it, in the order of the open set; every position is
\* removed, so the open set is empty when run returns.
C10_Priced(positions) ==
    SelectSeq(positions, LAMBDA p : HasSeries(p.symbol))
C10_ForcedAs(e, p) ==
    LET price == get_price_at_time(m1_data, p.symbol, DateEnd, "close").value
    IN  /\ PositionId(e.algo_name, e.ticket) = p.position_id
        /\ e.close_time = DateEnd
        /\ e.close_price = price
        /\ e.pnl = calculate_pnl(m1_data, p.type, p.symbol, p.open_price, price,
                                 p.size, DateEnd).value
        /\ e.size = p.size
        /\ e.pnl_original = NaN
        /\ e.risk_pct = NaN
        /\ e.mae_original = NaN
        /\ e.mfe_original = NaN
C10_Liquidation ==
    (pc = "loop" /\ pc' = "closed_all") =>
        LET priced == C10_Priced(open_positions)
            n == Len(trade_log)
        IN  /\ open_positions' = <<>>
            /\ Len(trade_log') = n + Len(priced)
            /\ \A k \in 1..Len(priced) : C10_ForcedAs(trade_log'[n + k], priced[k])
            /\ cash' = cash + SumSeq([k \in 1..Len(priced) |-> trade_log'[n + k].pnl])
C10_OpenPositionsForceClosedAtHorizon ==
    [](pc = "done" => open_positions = <<>>) /\ [][C10_Liquidation]_vars
C10_Witness ==
    /\ pc = "done"
    /\ Len(trade_log) = 2
    /\ trade_log[1].pnl # 0
    /\ trade_log[2].pnl # 0
    /\ trade_log[1].symbol # trade_log[2].symbol

\* C11 -- Liquidation at the horizon, for a position whose price lookup
\* fails: the position leaves the open set with no ClosedTrade and no change
\* of cash; the positions after it are still force-closed; the liquidation
\* never raises and ends with one more sample, at date_end, taken on the
\* emptied open set.
C11_Unpriced(positions) ==
    SelectSeq(positions, LAMBDA p : ~HasSeries(p.symbol))
C11_LoggedIds(log, from) ==
    {PositionId(log[k].algo_name, log[k].ticket) : k \in (from + 1)..Len(log)}
C11_Step ==
    (pc = "loop" /\ pc' = "closed_all") =>
        LET unpriced == C11_Unpriced(open_positions)
            logged == C11_LoggedIds(trade_log', Len(trade_log))
            last == equity_curve'[Len(equity_curve')]
        IN  /\ Keys(unpriced) \cap Keys(open_positions') = {}
            /\ Keys(unpriced) \cap logged = {}
            /\ Keys(open_positions) \ Keys(unpriced) = logged
            /\ Len(unpriced) = Len(open_positions) =>
                   (cash' = cash /\ trade_log' = trade_log)
            /\ cash' = cash + C4_RealizedIn(trade_log', Len(trade_log))
            /\ Len(equity_curve') = Len(equity_curve) + 1
            /\ last = EquitySample(DateEnd, cash', cash', 0, 0)
C11_FailedLookupDropsPosition ==
    [](pc \in {"loop", "closed_all", "done"}) /\ [][C11_Step]_vars
C11_Witness ==
    /\ pc = "done"
    /\ ~HasSeries("DE40")
    /\ Len(trade_log) = 1
    /\ trade_log[1].ticket = 2
    /\ trade_log[1].pnl # 0
    /\ cash = starting_balance + trade_log[1].pnl

\* C12 -- When the run has returned, the last sample of the equity curve is
\* at date_end and the returned final_equity is that sample's equity.
C12_LastSampleAtDateEnd ==
    pc \in {"closed_all", "done"} =>
        /\ equity_curve[Len(equity_curve)].datetime = DateEnd
        /\ pc = "done" =>
               result[1].final_equity = equity_curve[Len(equity_curve)].equity
C12_Witness ==
    /\ pc = "done"
    /\ Len(equity_curve) > 2
    /\ equity_curve[Len(equity_curve) - 1].datetime < DateEnd
    /\ result[1].final_equity # starting_balance
    /\ result[1].final_equity = cash

\* C13 -- The samples of the equity curve are in time order: each sample's
\* timestamp is at or after the timestamp of the sample before it.
C13_EquityCurveOrdered ==
    \A k \in 1..(Len(equity_curve) - 1) :
        equity_curve[k].datetime <= equity_curve[k + 1].datetime

\* C14 -- Fine-grained tracking: with the flag on, the tracking of a trade
\* appends exactly one sample for each bar of the traded symbol strictly
\* between the trade's open_time and close_time, in bar order, and none
\* for any other bar; with the flag off no trade is tracked and a trade
\* adds its close sample only; the floating_pnl of each such sample is the
\* sum of the floating P&L of all positions in the open set, marked at the
\* bar's timestamp.
C14_Bars ==
    LET trade == all_trades[i + 1]
    IN  IF HasSeries(trade.symbol)
        THEN SelectSeq(m1_data[trade.symbol],
                       LAMBDA bar : /\ trade.open_time < bar.datetime
                                    /\ bar.datetime < trade.close_time)
        ELSE <<>>
C14_TrackStep ==
    pc = "track" =>
        /\ Len(equity_curve') = Len(equity_curve) + Len(C14_Bars)
        /\ \A k \in 1..Len(C14_Bars) :
              LET sample == equity_curve'[Len(equity_curve) + k]
              IN  /\ sample.datetime = C14_Bars[k].datetime
                  /\ (\A n \in 1..Len(open_positions) :
                          HasSeries(open_positions[n].symbol)) =>
                        sample.floating_pnl =
                            C3_Floating(open_positions, sample.datetime)
C14_UntrackedStep ==
    (pc = "close" /\ ~generate_m1_equity) =>
        Len(equity_curve') = Len(equity_curve) + 1
Called(fn) == pc = "returned" /\ frame[1].fn = fn

\* C15 -- Sizing: the lots returned are 0 when the stop distance or the risk
\* per unit is zero, and otherwise (equity * risk_pct / 100) / (|entry -
\* stop| * contract_size * point_value) rounded to one decimal: the multiple
\* of 0.1 lot nearest to it.  equity 100000, risk 1%, entry 100, stop 99,
\* contract_size 1, point_value 1 gives 1000.0 lots; with stop = entry, 0.
C15_Lots(lots, eq, risk_pct, entry_price, sl_price, specs) ==
    LET distance == Abs(entry_price - sl_price)
        per_unit == distance * specs.contract_size * specs.point_value_num
        \* the exact size in tenths of a lot is wanted / unit
        wanted == eq * risk_pct * specs.point_value_den * LotScale
        unit == MoneyScale * 100 * per_unit
    IN  IF distance = 0 \/ per_unit = 0 THEN lots = 0
        ELSE 2 * Abs(lots * unit - wanted) <= unit
C15_UnitSpecs ==
    [contract_size |-> 1, point_value_num |-> 1, point_value_den |-> 1,
     currency |-> "USD"]
C15_Example(lots, eq, risk_pct, entry_price, sl_price, specs) ==
    (/\ eq = 100000 * MoneyScale
     /\ risk_pct = 1
     /\ entry_price = 100
     /\ specs = C15_UnitSpecs) =>
        /\ sl_price = 99 => lots = 1000 * LotScale
        /\ sl_price = 100 => lots = 0
C15_SizeIsRiskOverRiskPerUnit ==
    /\ Called("calculate_risk_amount") =>
          /\ C15_Lots(result[1], frame[1].equity, frame[1].risk_pct,
                      frame[1].entry_price, frame[1].sl_price, frame[1].specs)
          /\ C15_Example(result[1], frame[1].equity, frame[1].risk_pct,
                         frame[1].entry_price, frame[1].sl_price, frame[1].specs)
    /\ Called("calculate_size") =>
          /\ ~result[1].raised
          /\ C15_Lots(result[1].value, frame[1].equity, frame[1].risk_pct,
                      frame[1].entry_price, frame[1].sl_price,
                      IF frame[1].symbol \in DOMAIN INSTRUMENT_SPECS
                      THEN INSTRUMENT_SPECS[frame[1].symbol] ELSE C15_UnitSpecs)
          /\ C15_Example(result[1].value, frame[1].equity, frame[1].risk_pct,
                         frame[1].entry_price, frame[1].sl_price,
                         IF frame[1].symbol \in DOMAIN INSTRUMENT_SPECS
                         THEN INSTRUMENT_SPECS[frame[1].symbol] ELSE C15_UnitSpecs)
C15_Witness ==
    /\ Called("calculate_risk_amount")
    /\ frame[1].equity = 100000 * MoneyScale
    /\ frame[1].risk_pct = 1
    /\ frame[1].sl_price = 99
    /\ frame[1].specs = C15_UnitSpecs
    /\ result[1] = 1000 * LotScale

\* C16 -- A trade whose stop price is its entry price does not raise: it is
\* opened with 0 lots, it is closed, its close appends exactly one
\* ClosedTrade, with 0 lots and realized P&L 0, and leaves cash as it was;
\* when the run has returned the trade is in the log exactly once.
C16_Degenerate(trade) == trade.sl_price = trade.open_price
C16_Step ==
    (MidTrade' /\ C16_Degenerate(all_trades[i + 1])) =>
        /\ frame'[1].position_size = 0
        /\ Lookup(open_positions', frame'[1].position_id).size = 0
C16_CloseStep ==
    (pc = "close" /\ C16_Degenerate(all_trades[i + 1])) =>
        /\ pc' = "loop"
        /\ Len(trade_log') = Len(trade_log) + 1
        /\ SubSeq(trade_log', 1, Len(trade_log)) = trade_log
        /\ LET closed == trade_log'[Len(trade_log')]
           IN  /\ PositionId(closed.algo_name, closed.ticket) = C7_Id(i + 1)
               /\ closed.size = 0
               /\ closed.pnl = 0
        /\ cash' = cash
        /\ open_positions' = <<>>
C16_Recorded ==
    /\ pc # "raised"
    /\ pc = "done" =>
          \A n \in 1..Len(all_trades) :
              C16_Degenerate(all_trades[n]) =>
                  /\ Cardinality(C7_Logged(n)) = 1
                  /\ \A k \in C7_Logged(n) : trade_log[k].pnl = 0
C16_DegenerateStopIsRecordedAtZero ==
    []C16_Recorded /\ [][C16_Step /\ C16_CloseStep]_vars
C16_Witness ==
    /\ pc = "done"
    /\ Len(trade_log) = 2
    /\ trade_log[1].pnl # 0
    /\ C16_Degenerate(trade_log[2])
    /\ trade_log[2].close_price # trade_log[2].open_price
    /\ trade_log[2].pnl = 0
    /\ trade_log[2].entry_equity = cash

\* C17 -- P&L: the amount is (exit - entry) * lots * contract_size *
\* point_value for a Buy and (entry - exit) * lots * contract_size *
\* point_value for a Sell, unchanged for a USD instrument and multiplied by
\* fx_rate(currency + "USD") otherwise; the Sell amount is the negation of
\* the Buy amount for the same inputs.  Buy 100 -> 110, 1 lot,
\* contract_size 100 gives 1000, Sell gives -1000.
C17_Specs(symbol) ==
    IF symbol \in DOMAIN INSTRUMENT_SPECS THEN INSTRUMENT_SPECS[symbol]
    ELSE C15_UnitSpecs
C17_IsBuy(trade_type) == trade_type \in {"Buy", "buy", "BUY"}
C17_Opposite(trade_type) == IF C17_IsBuy(trade_type) THEN "Sell" ELSE "Buy"
C17_Rate(symbol, timestamp) ==
    IF C17_Specs(symbol).currency = "USD" THEN 1 * FxScale
    ELSE get_fx_rate(m1_data, C17_Specs(symbol).currency \o "USD", timestamp).value
C17_PnlIsSignedPriceMove ==
    Called("calculate_pnl") =>
        LET call == frame[1]
            specs == C17_Specs(call.symbol)
            move == IF C17_IsBuy(call.trade_type)
                    THEN call.exit_price - call.entry_price
                    ELSE call.entry_price - call.exit_price
        IN  /\ ~result[1].raised
            \* money is in 1/(LotScale * FxScale) dollar, lots in 1/LotScale
            \* and the rate in 1/FxScale: the scales cancel
            /\ result[1].value * specs.point_value_den
                  = move * call.size * specs.contract_size
                      * specs.point_value_num * C17_Rate(call.symbol, call.timestamp)
            /\ calculate_pnl(m1_data, C17_Opposite(call.trade_type), call.symbol,
                             call.entry_price, call.exit_price, call.size,
                             call.timestamp).value = 0 - result[1].value
            /\ (/\ call.symbol = "XAUUSD" /\ call.exit_price = 110
                 /\ call.size = 1 * LotScale) =>
                   result[1].value = IF C17_IsBuy(call.trade_type)
                                     THEN 1000 * MoneyScale
                                     ELSE 0 - 1000 * MoneyScale
C17_Witness ==
    /\ Called("calculate_pnl")
    /\ frame[1].trade_type = "Sell"
    /\ frame[1].symbol = "DE40"
    /\ frame[1].exit_price = 90
    /\ frame[1].size = 1 * LotScale
    /\ frame[1].timestamp = DateEnd
    /\ HasSeries("EURUSD")
    /\ result[1].value = 12 * MoneyScale

\* C18 -- price_at(symbol, t, field) is the field of the last bar at or
\* before t; when t is before every bar of the series it is the field of
\* the first bar; it fails when the symbol has no series.
C18_PriceIsLastBarAtOrBefore ==
    Called("get_price_at_time") =>
        LET call == frame[1]
        IN  IF ~HasSeries(call.symbol) THEN result[1].raised
            ELSE LET df == m1_data[call.symbol]
                     at == {k \in 1..Len(df) : df[k].datetime <= call.timestamp}
                 IN  /\ ~result[1].raised
                     /\ at = {} => result[1].value = df[1][call.price_type]
                     /\ at # {} =>
                          \E k \in at :
                              /\ \A j \in at : df[j].datetime <= df[k].datetime
                              /\ result[1].value = df[k][call.price_type]
C18_Witness ==
    /\ Called("get_price_at_time")
    /\ frame[1].symbol = "XAUUSD"
    /\ frame[1].price_type = "close"
    /\ frame[1].timestamp < m1_data["XAUUSD"][1].datetime
    /\ result[1] = Ok(m1_data["XAUUSD"][1].close)

\* C19 -- fx_rate(pair, t) is price_at(pair, t, close) when the pair has a
\* price series, otherwise the pair's entry in the default-rate table, and
\* it fails when the pair has neither.
C19_FxRateOrFailure ==
    Called("get_fx_rate") =>
        LET call == frame[1]
        IN  IF HasSeries(call.currency_pair)
            THEN result[1] = get_price_at_time(m1_data, call.currency_pair,
                                               call.timestamp, "close")
            ELSE IF call.currency_pair \in DOMAIN DEFAULT_FX_RATES
            THEN result[1] = Ok(DEFAULT_FX_RATES[call.currency_pair])
            ELSE result[1].raised

\* C20 -- Drawdown segmentation: the periods returned are the maximal runs
\* of consecutive indices with dd < 0, in increasing order and disjoint;
\* every index with dd < 0 is in a period and no index with dd >= 0 is;
\* each period has duration = end_idx - start_idx + 1 and max_dd the
\* lowest dd within it; a run that reaches the last index ends there.
\* Equity 100, 110, 90, 95, 120 gives one period, from index 2 to index 3.
C20_Series ==
    IF frame[1].fn = "find_drawdown_periods" THEN frame[1].drawdown_series
    ELSE calculate_drawdown_series(frame[1].equity_series)
C20_Below(dd, idx) == dd[idx + 1] < 0
C20_IsMaximalRun(dd, period) ==
    LET first == period.start_idx
        last == period.end_idx
    IN  /\ 0 <= first /\ first <= last /\ last <= Len(dd) - 1
        /\ \A idx \in first..last : C20_Below(dd, idx)
        /\ first = 0 \/ ~C20_Below(dd, first - 1)
        /\ last = Len(dd) - 1 \/ ~C20_Below(dd, last + 1)
        /\ period.duration = last - first + 1
        /\ \E idx \in first..last : dd[idx + 1] = period.max_dd
        /\ \A idx \in first..last : dd[idx + 1] >= period.max_dd
C20_Segmented(dd, periods) ==
    /\ \A k \in 1..Len(periods) : C20_IsMaximalRun(dd, periods[k])
    /\ \A j, k \in 1..Len(periods) :
          j < k => periods[j].end_idx < periods[k].start_idx
    /\ \A idx \in 0..(Len(dd) - 1) :
          C20_Below(dd, idx) <=>
              \E k \in 1..Len(periods) :
                  periods[k].start_idx <= idx /\ idx <= periods[k].end_idx
C20_DrawdownPeriodsAreMaximalRuns ==
    (Called("find_drawdown_periods") \/ Called("drawdown_periods_of_equity")) =>
        /\ C20_Segmented(C20_Series, result[1])
        /\ (/\ frame[1].fn = "drawdown_periods_of_equity"
             /\ frame[1].equity_series = <<100, 110, 90, 95, 120>>) =>
               /\ Len(result[1]) = 1
               /\ result[1][1].start_idx = 2
               /\ result[1][1].end_idx = 3
C20_Witness ==
    /\ Called("find_drawdown_periods")
    /\ Len(frame[1].drawdown_series) = MaxLen
    /\ Len(result[1]) = 2
    /\ result[1][1].duration = 2
    /\ result[1][1].max_dd_idx = result[1][1].end_idx
    /\ result[1][2].end_idx = MaxLen - 1

\* C21 -- Drawdown series: for every equity series, dd[i] is (equity[i] -
\* running_max(equity[0..i])) / running_max(equity[0..i]) * 100 (here in
\* 1/DdScale percent, rounded down), dd[i] <= 0 at every index, and
\* dd[i] = 0 exactly when equity[i] is the running maximum.
C21_RunningMax(series, k) ==
    CHOOSE m \in {series[j] : j \in 1..k} : \A j \in 1..k : series[j] <= m
C21_IsQuotient(q, n, d) ==
    IF d > 0 THEN q * d <= n /\ n < (q + 1) * d
    ELSE q * d >= n /\ n > (q + 1) * d
C21_DrawdownIsDeclineFromRunningMax ==
    Called("calculate_drawdown_series") =>
        LET series == frame[1].equity_series
            dd == result[1]
        IN  /\ Len(dd) = Len(series)
            /\ \A k \in 1..Len(series) :
                  LET highest == C21_RunningMax(series, k)
                  IN  /\ C21_IsQuotient(dd[k], (series[k] - highest) * 100 * DdScale,
                                        highest)
                      /\ dd[k] <= 0
                      /\ dd[k] = 0 <=> series[k] = highest

\* C22 -- Attribution partitions the trade log by strategy: every trade of
\* the log is counted in exactly one strategy's entry (the entries are keyed
\* by the strategies of the log and each counts the trades of its strategy),
\* the per-strategy total_trades sum to the number of trades in the log, and
\* the per-strategy total_pnl sum to the total P&L of the log.
RECURSIVE C22_Sum(_, _, _)
C22_Sum(attribution, key, names) ==
    IF names = {} THEN 0
    ELSE LET name == CHOOSE n \in names : TRUE
         IN  attribution[name][key] + C22_Sum(attribution, key, names \ {name})
C22_AttributionPartitionsLog ==
    Called("analyze") =>
        LET trades == frame[1].trades
            attribution == result[1]
        IN  /\ \A k \in 1..Len(trades) : trades[k].algo_name \in DOMAIN attribution
            /\ \A name \in DOMAIN attribution :
                  attribution[name].total_trades =
                      Cardinality({k \in 1..Len(trades) : trades[k].algo_name = name})
            /\ C22_Sum(attribution, "total_trades", DOMAIN attribution) = Len(trades)
            /\ C22_Sum(attribution, "total_pnl", DOMAIN attribution)
                   = SumSeq([k \in 1..Len(trades) |-> trades[k].pnl])
C22_Witness ==
    /\ Called("analyze")
    /\ Cardinality(DOMAIN result[1]) = 2
    /\ \A name \in DOMAIN result[1] :
          result[1][name].total_trades >= 2 /\ result[1][name].total_pnl # 0
    /\ \E name \in DOMAIN result[1] : result[1][name].losing_trades > 0

\* C23 -- Each strategy's attribution entry carries contribution_pct, equal
\* to the entry's total_pnl / the log's total P&L * 100 (so, kept as an
\* exact ratio, contribution_pct * total = total_pnl * 100), and the
\* contribution_pct values sum to 100 whenever the total P&L is not zero.
C23_Total == SumSeq([k \in 1..Len(frame[1].trades) |-> frame[1].trades[k].pnl])
C23_ContributionPctSumsToHundred ==
    Called("analyze") =>
        LET attribution == result[1]
        IN  /\ \A name \in DOMAIN attribution :
                  /\ "contribution_pct" \in DOMAIN attribution[name]
                  /\ C23_Total # 0 =>
                        attribution[name].contribution_pct.num * C23_Total
                            = attribution[name].total_pnl * 100
                                * attribution[name].contribution_pct.den
            /\ C23_Total # 0 =>
                  \E den \in 1..(Abs(C23_Total) * 100) :
                      /\ \A name \in DOMAIN attribution :
                            attribution[name].contribution_pct.den = den
                      /\ C22_Sum([name \in DOMAIN attribution |->
                                     [num |-> attribution[name].contribution_pct.num]],
                                 "num", DOMAIN attribution) = 100 * den

\* C24 -- calculate_all is idempotent and side-effect free: every call on
\* the same results returns a bundle (no call fails), all bundles returned
\* are identical, and no call changes the input equity curve or trade log
\* (same rows, same columns, same index, same order).
C24_CalculateAllIsPure ==
    /\ equity_curve = result[1].equity_curve
    /\ trade_log = result[1].trades
    /\ \A k \in 1..Len(frame) : ~frame[k].raised /\ frame[k] = frame[1]
C24_Witness ==
    /\ Len(frame) = 2
    /\ frame[2].value.num_dd_periods >= 1
    /\ frame[2].value.positive_months >= 1
    /\ frame[2].value.total_trades = 2

\* C25 -- No look-ahead in cash: while a trade T is being processed, before
\* its own close, cash holds the realized P&L of exactly the trades whose
\* close_time <= T.open_time, and so does the equity T was sized on; a
\* trade that closes after T.open_time has not put its realized P&L there.
C25_ClosedBy(t) ==
    SumSeq([k \in 1..Len(trade_log) |->
               IF trade_log[k].close_time <= t THEN trade_log[k].pnl ELSE 0])
C25_ClosedAfter(t) ==
    SumSeq([k \in 1..Len(trade_log) |->
               IF trade_log[k].close_time > t THEN trade_log[k].pnl ELSE 0])
C25_NoLookAheadInCash ==
    MidTrade =>
        LET T == all_trades[i + 1]
        IN  /\ cash = starting_balance + C25_ClosedBy(T.open_time)
            /\ frame[1].current_equity - C25_ClosedAfter(T.open_time)
                   = starting_balance + C25_ClosedBy(T.open_time)

\* C26 -- In every reachable state of a run the open set holds at most one
\* position; it is empty each time a trade starts being processed and when
\* the forced liquidation begins (both are the states at the head of the
\* loop); no force-closed trade (one logged without risk_pct) is ever in
\* the log; and every step that logs a trade appends a sample with
\* open_positions = 0 and equity = cash.
C26_OpenSetIsTransient ==
    /\ Len(open_positions) <= 1
    /\ pc = "loop" => open_positions = <<>>
    /\ \A k \in 1..Len(trade_log) : trade_log[k].risk_pct # NaN
C26_CloseSample ==
    Len(trade_log') = Len(trade_log) + 1 =>
        LET sample == equity_curve'[Len(equity_curve')]
        IN  /\ Len(equity_curve') = Len(equity_curve) + 1
            /\ sample.datetime = trade_log'[Len(trade_log')].close_time
            /\ sample.open_positions = 0
            /\ sample.equity = sample.cash
            /\ sample.cash = cash'
C26_AtMostOneOpenPosition ==
    [](C26_OpenSetIsTransient) /\ [][C26_CloseSample]_vars
C26_Witness ==
    /\ pc = "done"
    /\ Len(trade_log) = 2
    /\ trade_log[1].algo_name # trade_log[2].algo_name
    /\ trade_log[2].open_time < trade_log[1].close_time
    /\ generate_m1_equity
    /\ Len(equity_curve) > 4

\* C27 -- Conservation of cash: in every state of the replay cash is the
\* starting balance plus the sum of the pnl of all trades logged so far,
\* and the final_equity a run returns is the starting balance plus the sum
\* of the pnl of the whole trade log.
C27_LoggedPnl == SumSeq([k \in 1..Len(trade_log) |-> trade_log[k].pnl])
C27_CashIsConserved ==
    /\ cash = starting_balance + C27_LoggedPnl
    /\ pc = "done" => result[1].final_equity = starting_balance + C27_LoggedPnl
C27_Witness ==
    /\ pc = "done"
    /\ Len(trade_log) = 2
    /\ trade_log[1].pnl < 0
    /\ trade_log[2].pnl > 0
    /\ result[1].final_equity # starting_balance

\* C28 -- For every normally closed trade, the exit_equity logged with it
\* equals the equity of the sample appended at its close, which is the
\* portfolio equity after the trade's realized P&L (at its own close_price)
\* has been added to cash.
C28_JustClosed == pc = "loop" /\ i > 0
C28_ExitEquityIsEquityAfterClose ==
    C28_JustClosed =>
        LET closed == trade_log[Len(trade_log)]
            sample == equity_curve[Len(equity_curve)]
        IN  /\ sample.datetime = closed.close_time
            /\ closed.exit_equity = sample.equity
            /\ closed.exit_equity = cash

\* C29 -- Every input trade yields exactly one ClosedTrade: a run always
\* terminates, and the log it returns has one entry per input row of every
\* strategy (as many entries as input trades), in the merged processing
\* order, with total_trades equal to that count.
C29_InputCount ==
    SumSeq([a \in 1..Len(backtest_data) |-> Len(backtest_data[a].df)])
C29_OneClosedTradePerInput ==
    /\ Len(trade_log) = C29_InputCount
    /\ result[1].total_trades = C29_InputCount
    /\ \A a \in 1..Len(backtest_data) : \A r \in 1..Len(backtest_data[a].df) :
          Cardinality({k \in 1..Len(trade_log) :
              /\ trade_log[k].algo_name = backtest_data[a].algo_name
              /\ trade_log[k].ticket = backtest_data[a].df[r].ticket}) = 1
    /\ Len(trade_log) = Len(all_trades)
    /\ \A k \in 1..Len(trade_log) :
          /\ trade_log[k].algo_name = all_trades[k].algo_name
          /\ trade_log[k].ticket = all_trades[k].ticket
C29_RunClosesEveryTrade ==
    /\ [](pc = "done" => C29_OneClosedTradePerInput)
    /\ [](pc # "raised")
    /\ <>[](pc = "done")
C29_Witness ==
    /\ pc = "done"
    /\ Len(trade_log) = 2
    /\ Len(backtest_data) = 2
    /\ trade_log[1].algo_name = backtest_data[2].algo_name
    /\ trade_log[2].algo_name = backtest_data[1].algo_name

\* C30 -- Every sized position has lots >= 0 in every reachable state, also
\* after losses have driven the sizing equity to zero or below; so a Buy
\* closed under its entry never shows a profit and a Sell closed above its
\* entry never shows a profit.
C30_LotsNeverNegative ==
    /\ \A k \in 1..Len(open_positions) : open_positions[k].size >= 0
    /\ \A k \in 1..Len(trade_log) :
          /\ trade_log[k].size >= 0
          /\ trade_log[k].type = "Buy"
                /\ trade_log[k].close_price < trade_log[k].open_price
                => trade_log[k].pnl <= 0
          /\ trade_log[k].type = "Sell"
                /\ trade_log[k].close_price > trade_log[k].open_price
                => trade_log[k].pnl <= 0

=============================================================================
